---- MODULE Spec2Model ----
(***************************************************************************)
(* Model of the photo-stack handlers of personal-website-cdk:              *)
(*   lambda/media/write/index.ts   (write handler, conditional inserts)    *)
(*   lambda/media/read/index.ts    (read handler, stack query + fan-out)   *)
(* together with their Joi schemas and the two DynamoDB tables they use.   *)
(***************************************************************************)
EXTENDS Integers, Sequences, FiniteSets, TLC

\* ------------------------------------------------------------------------
\* Bounds and input sets
\* ------------------------------------------------------------------------

\* The clock (Date.now()) runs over 0..MaxTime.
MaxTime == 1

\* The value of an undefined string.
None == "none"

\* event.body values that are not a JSON object.
MissingBody == [kind |-> "missing"]

\* event.body is the empty string.
EmptyBody == [kind |-> "empty"]

InvalidJson == [kind |-> "invalid-json"]

\* A JSON object is a record whose fields are the keys it carries.
Has(obj, key) == key \in DOMAIN obj

Without(obj, key) == [k \in DOMAIN obj \ {key} |-> obj[k]]

\* The invocations of the write handler; they may overlap or follow each other.
Writers == {"w1", "w2"}

StackIds == {"s1", "s2"}

MediaIds == {"m1", "m2"}

\* Two payload variants, so that two requests for the same key can differ;
\* variant 1 leaves the optional fields out.
Variants == {1, 2}

Url(scheme, path) == [scheme |-> scheme, path |-> path]

MediaBodyItem(mid, v) ==
  IF v = 1
    THEN [mediaId |-> mid, mediaType |-> "image",
          imageSrc |-> [thumbnail |-> Url("https", "t1"), full |-> Url("https", "f1")]]
    ELSE [mediaId |-> mid, mediaType |-> "video", alternativeText |-> "alt-2",
          imageSrc |-> [thumbnail |-> Url("https", "t2"), full |-> Url("https", "f2")]]

\* The media arrays of the write requests, as lists of mediaIds.
MediaIdLists ==
  { <<"m1">>, <<"m2">>, <<"m1", "m2">>, <<"m2", "m1">>, <<"m1", "m1">> }

MediaBodyOf(ids, v) == [i \in 1..Len(ids) |-> MediaBodyItem(ids[i], v)]

WriteBody(s, v, t, ids) ==
  IF v = 1
    THEN [kind |-> "json", stackId |-> s, caption |-> "caption-1",
          uploadTimestamp |-> t, media |-> MediaBodyOf(ids, v)]
    ELSE [kind |-> "json", stackId |-> s, caption |-> "caption-2",
          uploadTimestamp |-> t, location |-> "location-2",
          media |-> MediaBodyOf(ids, v)]

\* Bodies that have the shape the schema asks for (the timestamp may still
\* lie in the future when the request is validated).
ShapedWriteBodies ==
  { WriteBody(s, v, IF v = 1 THEN 0 ELSE MaxTime, ids) :
      s \in StackIds, v \in Variants, ids \in MediaIdLists }

BaseWriteBody == WriteBody("s1", 2, 0, <<"m1">>)

BaseMediaItem == MediaBodyItem("m1", 2)

\* Bodies that break one rule of the schema each.
FaultyWriteBodies ==
  { Without(BaseWriteBody, "stackId"),
    Without(BaseWriteBody, "caption"),
    Without(BaseWriteBody, "uploadTimestamp"),
    [BaseWriteBody EXCEPT !.uploadTimestamp = -1],
    [BaseWriteBody EXCEPT !.uploadTimestamp = MaxTime + 1],
    Without(BaseWriteBody, "media"),
    [BaseWriteBody EXCEPT !.media = << >>],
    [BaseWriteBody EXCEPT !.media = << Without(BaseMediaItem, "mediaId") >>],
    [BaseWriteBody EXCEPT !.media = << Without(BaseMediaItem, "mediaType") >>],
    [BaseWriteBody EXCEPT !.media = << Without(BaseMediaItem, "imageSrc") >>],
    [BaseWriteBody EXCEPT !.media =
       << [BaseMediaItem EXCEPT !.imageSrc.thumbnail = Url("http", "t1")] >>],
    [BaseWriteBody EXCEPT !.media =
       << [mediaId |-> "m1", mediaType |-> "video", alternativeText |-> "alt-2",
           imageSrc |-> BaseMediaItem.imageSrc, sequenceNumber |-> 7] >>],
    [kind |-> "json", invalidField |-> "This field is not expected"],
    [kind |-> "json", stackId |-> "s1", caption |-> "caption-1",
     uploadTimestamp |-> 0, media |-> MediaBodyOf(<<"m1">>, 1),
     invalidField |-> "This field is not expected"] }

WriteBodies ==
  ShapedWriteBodies \cup FaultyWriteBodies \cup {MissingBody, EmptyBody, InvalidJson}

\* The invocations of the read handler.
Readers == {"r1"}

ReadBody(limit, start, end) ==
  [kind |-> "json", stackLimit |-> limit, startTimestamp |-> start,
   endTimestamp |-> end]

StackLimits == {-5, 0, 1, 2}

StartTimestamps == {-1, 0, 1}

EndTimestamps == 0..(MaxTime + 1)

\* The read requests: every key of the body may be left out.
FullReadBodies ==
  { ReadBody(l, s, e) : l \in StackLimits, s \in StartTimestamps, e \in EndTimestamps }

ReadBodies ==
  UNION { { b, Without(b, "stackLimit"), Without(b, "startTimestamp"),
            Without(b, "endTimestamp"),
            Without(Without(b, "startTimestamp"), "endTimestamp") } :
          b \in FullReadBodies }
  \cup { [kind |-> "json", stackLimit |-> 2, invalidField |-> "unexpected"],
         [kind |-> "json"], MissingBody, EmptyBody, InvalidJson }

\* The write requests whose puts land at the store while a read runs.
ConcurrentWriteBodies ==
  { WriteBody(s, v, IF v = 1 THEN 0 ELSE MaxTime, ids) :
      s \in StackIds, v \in Variants, ids \in {<<"m1">>, <<"m2">>, <<"m1", "m2">>} }

\* ------------------------------------------------------------------------
\* common/errors.ts and the response builders
\* ------------------------------------------------------------------------

ValidationErrorStatus == 400

createResponse(statusCode, message) ==
  [statusCode |-> statusCode, message |-> message]

\* No response was returned yet.
NoResponse == [statusCode |-> 0, message |-> ""]

\* parseRequestBody throws a ValidationError with this message.
Thrown(message) == [error |-> message]

\* parseRequestBody returns the validated value.
Parsed(value) == [error |-> None, value |-> value]

\* ------------------------------------------------------------------------
\* lambda/media/write/schemas.ts
\* ------------------------------------------------------------------------

\* The first failing rule of the imageSrc object of a media item, or None.
ImageSrcError(src) ==
  IF ~Has(src, "thumbnail") THEN "thumbnail imageSrc is required"
  ELSE IF src.thumbnail.scheme # "https"
    THEN "thumbnail imageSrc must be a valid HTTPS URL"
  ELSE IF ~Has(src, "full") THEN "full imageSrc is required"
  ELSE IF src.full.scheme # "https" THEN "full imageSrc must be a valid HTTPS URL"
  ELSE None

\* The keys mediaSchema knows.
MediaSchemaKeys == {"mediaId", "alternativeText", "imageSrc", "mediaType"}

\* The first failing rule of mediaSchema for one item, or None; a key the
\* schema does not know is reported after the known keys.
MediaItemError(item, index) ==
  IF ~Has(item, "mediaId") THEN "mediaId is required"
  ELSE IF ~Has(item, "imageSrc")
    THEN "\"media[" \o ToString(index) \o "].imageSrc\" is required"
  ELSE IF ImageSrcError(item.imageSrc) # None THEN ImageSrcError(item.imageSrc)
  ELSE IF ~Has(item, "mediaType") THEN "mediaType is required"
  ELSE IF DOMAIN item \ MediaSchemaKeys # {}
    THEN "\"media[" \o ToString(index) \o "].sequenceNumber\" is not allowed"
  ELSE None

\* The keys the write requestBodySchema knows.
WriteSchemaKeys == {"stackId", "caption", "uploadTimestamp", "location", "media"}

\* The write schema with unknown keys allowed and without the array's min(1).
WriteSchemaErrorLenient(body, currentTimestamp) ==
  IF ~Has(body, "stackId") THEN "stackId is required"
  ELSE IF ~Has(body, "caption") THEN "caption is required"
  ELSE IF ~Has(body, "uploadTimestamp") THEN "uploadTimestamp is required"
  ELSE IF body.uploadTimestamp < 0
    THEN "uploadTimestamp must be a non-negative number"
  ELSE IF body.uploadTimestamp > currentTimestamp
    THEN "uploadTimestamp must be in the past"
  ELSE IF ~Has(body, "media") THEN "media is required"
  ELSE IF \E i \in 1..Len(body.media) : MediaItemError(body.media[i], i - 1) # None
    THEN "media item is not valid"
  ELSE None

\* The write schema without .max(Joi.ref('$currentTimestamp')).
WriteSchemaErrorNoMax(body, currentTimestamp) ==
  IF ~Has(body, "stackId") THEN "stackId is required"
  ELSE IF ~Has(body, "caption") THEN "caption is required"
  ELSE IF ~Has(body, "uploadTimestamp") THEN "uploadTimestamp is required"
  ELSE IF body.uploadTimestamp < 0
    THEN "uploadTimestamp must be a non-negative number"
  ELSE IF ~Has(body, "media") THEN "media is required"
  ELSE IF \E i \in 1..Len(body.media) : MediaItemError(body.media[i], i - 1) # None
    THEN "media item is not valid"
  ELSE IF Len(body.media) < 1 THEN "media must contain at least one item"
  ELSE IF DOMAIN body \ ({"kind"} \cup WriteSchemaKeys) # {}
    THEN "\"invalidField\" is not allowed"
  ELSE None

\* The first failing rule of the write requestBodySchema, or None: keys are
\* checked in the order of the schema, array items before the array's
\* length, unknown keys last.
WriteSchemaError(body, currentTimestamp) ==
  IF ~Has(body, "stackId") THEN "stackId is required"
  ELSE IF ~Has(body, "caption") THEN "caption is required"
  ELSE IF ~Has(body, "uploadTimestamp") THEN "uploadTimestamp is required"
  ELSE IF body.uploadTimestamp < 0
    THEN "uploadTimestamp must be a non-negative number"
  ELSE IF body.uploadTimestamp > currentTimestamp
    THEN "uploadTimestamp must be in the past"
  ELSE IF ~Has(body, "media") THEN "media is required"
  ELSE IF \E i \in 1..Len(body.media) : MediaItemError(body.media[i], i - 1) # None
    THEN LET i == CHOOSE j \in 1..Len(body.media) :
                    /\ MediaItemError(body.media[j], j - 1) # None
                    /\ \A k \in 1..(j - 1) : MediaItemError(body.media[k], k - 1) = None
         IN MediaItemError(body.media[i], i - 1)
  ELSE IF Len(body.media) < 1 THEN "media must contain at least one item"
  ELSE IF DOMAIN body \ ({"kind"} \cup WriteSchemaKeys) # {}
    THEN "\"invalidField\" is not allowed"
  ELSE None

\* ------------------------------------------------------------------------
\* lambda/media/write/index.ts
\* ------------------------------------------------------------------------

WriteParseRequestBody(body, currentTimestamp) ==
  IF body.kind \in {"missing", "empty"} THEN Thrown("Request body is missing.")
  ELSE IF body.kind = "invalid-json" THEN Thrown("Invalid JSON format.")
  ELSE LET error == WriteSchemaError(body, currentTimestamp)
       IN IF error # None THEN Thrown("Invalid request: " \o error)
          ELSE Parsed(body)

\* The Item of saveStackMetadata; an undefined location is not stored.
StackItem(stackId, caption, uploadTimestamp, location) ==
  IF location = None
    THEN [caption |-> caption, stackId |-> stackId,
          uploadTimestamp |-> uploadTimestamp]
    ELSE [caption |-> caption, stackId |-> stackId, location |-> location,
          uploadTimestamp |-> uploadTimestamp]

\* The Item of saveMediaMetadata; an undefined alternativeText is not stored.
MediaItem(media, stackId, sequenceNumber) ==
  IF ~Has(media, "alternativeText")
    THEN [mediaId |-> media.mediaId, stackId |-> stackId,
          imageSrc |-> media.imageSrc, sequenceNumber |-> sequenceNumber,
          mediaType |-> media.mediaType]
    ELSE [mediaId |-> media.mediaId, stackId |-> stackId,
          alternativeText |-> media.alternativeText,
          imageSrc |-> media.imageSrc, sequenceNumber |-> sequenceNumber,
          mediaType |-> media.mediaType]

\* A table is a function from the keys it stores to their items.
EmptyTable == [k \in {} |-> 0]

\* The item stored under key, as a set of at most one item.
Lookup(table, key) == IF key \in DOMAIN table THEN {table[key]} ELSE {}

\* The put without the condition: it overwrites the stored item.
UnconditionalPut(table, key, item) ==
  [k \in DOMAIN table \cup {key} |-> IF k = key THEN item ELSE table[k]]

\* What the store does with put + ConditionExpression attribute_not_exists(key).
ConditionalPut(table, key, item) ==
  IF key \in DOMAIN table THEN table
  ELSE [k \in DOMAIN table \cup {key} |-> IF k = key THEN item ELSE table[k]]

\* The store's answer to that put when the store works.
PutAnswer(table, key) ==
  IF key \in DOMAIN table THEN "ConditionalCheckFailedException" ELSE "ok"

\* putItem rethrowing every error of the store.
putItemRethrowsAll(answer) == IF answer = "ok" THEN "resolved" ELSE "rejected"

\* putItem swallowing every error of the store.
putItemSwallowsAll(answer) == "resolved"

\* putItem: how its promise settles for an answer of the store.
putItem(answer) ==
  IF answer = "ok" THEN "resolved"
  ELSE IF answer = "ConditionalCheckFailedException" THEN "resolved"
  ELSE "rejected"

\* ------------------------------------------------------------------------
\* lambda/media/read/schemas.ts
\* ------------------------------------------------------------------------

\* The keys the read requestBodySchema knows.
ReadSchemaKeys == {"stackLimit", "startTimestamp", "endTimestamp"}

\* startTimestamp after validation: the default 0 when the key is absent.
StartTimestampValue(body) ==
  IF Has(body, "startTimestamp") THEN body.startTimestamp ELSE 0

\* endTimestamp after validation: the default Date.now() when the key is absent.
EndTimestampValue(body, currentTimestamp) ==
  IF Has(body, "endTimestamp") THEN body.endTimestamp ELSE currentTimestamp

\* The read schema with stackLimit: Joi.number().min(0) in place of greater(0).
ReadSchemaErrorMinZero(body) ==
  IF ~Has(body, "stackLimit") THEN "stackLimit is required"
  ELSE IF body.stackLimit < 0 THEN "stackLimit must be greater than 0"
  ELSE IF Has(body, "startTimestamp") /\ body.startTimestamp < 0
    THEN "startTimestamp must be a non-negative number"
  ELSE IF Has(body, "endTimestamp")
          /\ ~(body.endTimestamp > StartTimestampValue(body))
    THEN "endTimestamp must be greater than startTimestamp"
  ELSE None

\* The read schema with endTimestamp: Joi.number().min(Joi.ref('startTimestamp'))
\* in place of greater(...).
ReadSchemaErrorEndMin(body) ==
  IF ~Has(body, "stackLimit") THEN "stackLimit is required"
  ELSE IF ~(body.stackLimit > 0) THEN "stackLimit must be greater than 0"
  ELSE IF Has(body, "startTimestamp") /\ body.startTimestamp < 0
    THEN "startTimestamp must be a non-negative number"
  ELSE IF Has(body, "endTimestamp")
          /\ ~(body.endTimestamp >= StartTimestampValue(body))
    THEN "endTimestamp must be greater than startTimestamp"
  ELSE IF DOMAIN body \ ({"kind"} \cup ReadSchemaKeys) # {}
    THEN "\"invalidField\" is not allowed"
  ELSE None

\* The first failing rule of the read requestBodySchema, or None. A rule is
\* checked on a key that is present only: a default is not validated.
ReadSchemaError(body) ==
  IF ~Has(body, "stackLimit") THEN "stackLimit is required"
  ELSE IF ~(body.stackLimit > 0) THEN "stackLimit must be greater than 0"
  ELSE IF Has(body, "startTimestamp") /\ body.startTimestamp < 0
    THEN "startTimestamp must be a non-negative number"
  ELSE IF Has(body, "endTimestamp")
          /\ ~(body.endTimestamp > StartTimestampValue(body))
    THEN "endTimestamp must be greater than startTimestamp"
  ELSE IF DOMAIN body \ ({"kind"} \cup ReadSchemaKeys) # {}
    THEN "\"invalidField\" is not allowed"
  ELSE None

\* The value requestBodySchema.validate returns for a body without error.
ReadSchemaValue(body, currentTimestamp) ==
  [stackLimit |-> body.stackLimit,
   startTimestamp |-> StartTimestampValue(body),
   endTimestamp |-> EndTimestampValue(body, currentTimestamp)]

\* ------------------------------------------------------------------------
\* lambda/media/read/index.ts
\* ------------------------------------------------------------------------

\* parseRequestBody without the `!event.body` check: JSON.parse gets the body.
ReadParseNoMissingCheck(body, currentTimestamp) ==
  IF body.kind \in {"missing", "empty", "invalid-json"}
    THEN Thrown("Invalid JSON format.")
  ELSE LET error == ReadSchemaError(body)
       IN IF error # None THEN Thrown("Invalid request: " \o error)
          ELSE Parsed(ReadSchemaValue(body, currentTimestamp))

ReadParseRequestBody(body, currentTimestamp) ==
  IF body.kind \in {"missing", "empty"} THEN Thrown("Request body is missing.")
  ELSE IF body.kind = "invalid-json" THEN Thrown("Invalid JSON format.")
  ELSE LET error == ReadSchemaError(body)
       IN IF error # None THEN Thrown("Invalid request: " \o error)
          ELSE Parsed(ReadSchemaValue(body, currentTimestamp))

createErrorResponse(statusCode, message) ==
  [statusCode |-> statusCode, message |-> message]

\* The items of the stack table the key condition
\* 'uploadTimestamp BETWEEN :start AND :end' selects.
StacksBetween(table, startTimestamp, endTimestamp) ==
  { table[k] : k \in { x \in DOMAIN table :
                         /\ startTimestamp <= table[x].uploadTimestamp
                         /\ table[x].uploadTimestamp <= endTimestamp } }

\* The key condition 'uploadTimestamp >= :start', without the upper bound.
StacksFrom(table, startTimestamp, endTimestamp) ==
  { table[k] : k \in { x \in DOMAIN table :
                         startTimestamp <= table[x].uploadTimestamp } }

\* The key condition of queryStackMetadataTable.
StackKeyCondition(table, startTimestamp, endTimestamp) ==
  StacksBetween(table, startTimestamp, endTimestamp)

Min(a, b) == IF a < b THEN a ELSE b

\* The orders ScanIndexForward: false can return a set of items in: most
\* recent first, items of equal uploadTimestamp in either order.
Descending(items) ==
  { q \in [1..Cardinality(items) -> items] :
      /\ \A i \in DOMAIN q, j \in DOMAIN q : i # j => q[i] # q[j]
      /\ \A i \in DOMAIN q, j \in DOMAIN q :
           i < j => q[i].uploadTimestamp >= q[j].uploadTimestamp }

\* The stack query without Limit.
queryStackMetadataTableNoLimit(table, limit, startTimestamp, endTimestamp) ==
  Descending(StackKeyCondition(table, startTimestamp, endTimestamp))

\* The Items lists queryStackMetadataTable can get from a working store.
queryStackMetadataTable(table, limit, startTimestamp, endTimestamp) ==
  { SubSeq(q, 1, Min(limit, Len(q))) :
      q \in Descending(StackKeyCondition(table, startTimestamp, endTimestamp)) }

\* A list of items some of which lost their stackId attribute.
Stripped(q, positions) ==
  [i \in DOMAIN q |-> IF i \in positions THEN Without(q[i], "stackId") ELSE q[i]]

\* The answers of a working store to the stack query: the Items list, items
\* possibly lacking stackId, or an answer without Items when nothing matched.
StackQueryAnswers(table, params) ==
  LET lists == queryStackMetadataTable(table, params.stackLimit,
                                       params.startTimestamp, params.endTimestamp)
  IN UNION { { [Items |-> Stripped(q, ps)] : ps \in SUBSET DOMAIN q } : q \in lists }
     \cup { [Count |-> 0] : q \in { x \in lists : Len(x) = 0 } }

\* stackMetadataResponse.Items || []
ItemsOrEmpty(response) == IF Has(response, "Items") THEN response.Items ELSE << >>

\* The media lookup without its key condition: every item of the table.
queryMediaMetadataTableAll(table, stackId) == { table[k] : k \in DOMAIN table }

\* The Items queryMediaMetadataTable gets for 'stackId = :stackId'.
queryMediaMetadataTable(table, stackId) ==
  { table[k] : k \in { x \in DOMAIN table : table[x].stackId = stackId } }

\* stack.stackId, undefined when the stack has none.
StackIdOf(stack) == IF Has(stack, "stackId") THEN stack.stackId ELSE None

\* stacks.map without the stackId check.
NoStackIdCheck(stacks) == 0

\* The position of the first stack without stackId, 0 when there is none:
\* stacks.map throws there.
FirstWithoutStackId(stacks) ==
  IF \A i \in DOMAIN stacks : Has(stacks[i], "stackId") THEN 0
  ELSE CHOOSE i \in DOMAIN stacks :
         /\ ~Has(stacks[i], "stackId")
         /\ \A j \in 1..(i - 1) : Has(stacks[j], "stackId")

\* Pairs built in the order the media lookups completed.
MergeByCompletion(stacks, mediaResponses, order) ==
  [i \in DOMAIN stacks |->
     [stack |-> stacks[order[i]], media |-> mediaResponses[order[i]].Items]]

\* stacks.map((stack, index) => ({stack, media: mediaResponses[index].Items}));
\* order is the order the lookups completed in.
stackAndMediaData(stacks, mediaResponses, order) ==
  [i \in DOMAIN stacks |-> [stack |-> stacks[i], media |-> mediaResponses[i].Items]]

\* ------------------------------------------------------------------------
\* lambda/media/generate-signed-urls/schemas.ts
\* ------------------------------------------------------------------------

\* The invocations of the signed-URL handler.
Signers == {"g1", "g2"}

FileMetadata(fileName, contentType, userId) ==
  [fileName |-> fileName, contentType |-> contentType, userId |-> userId]

FileA == FileMetadata("testfile.jpg", "image/jpeg", "user123")

FileB == FileMetadata("clip.mp4", "video/mp4", "user123")

\* The filesMetadata arrays of the well-formed signed-URL requests; the same
\* file may be named twice.
FilesLists == { <<FileA>>, <<FileA, FileA>>, <<FileA, FileB>>, <<FileB, FileA>> }

SignBody(files) == [kind |-> "json", filesMetadata |-> files]

\* Bodies that break one rule of the schema each.
FaultySignBodies ==
  { [kind |-> "json"],
    SignBody(<< >>),
    SignBody(<< Without(FileA, "fileName") >>),
    SignBody(<< Without(FileA, "contentType") >>),
    SignBody(<< [FileA EXCEPT !.contentType = "jpeg"] >>),
    SignBody(<< FileA, Without(FileB, "userId") >>),
    [kind |-> "json", filesMetadata |-> <<FileA>>, invalidField |-> "unexpected"] }

SignBodies ==
  { SignBody(files) : files \in FilesLists } \cup FaultySignBodies
    \cup {MissingBody, EmptyBody, InvalidJson}

\* The content types that match /^.*\/.*$/.
MimeTypes == {"image/jpeg", "video/mp4"}

\* The first failing rule of fileMetadataSchema for one item, or None.
FileMetadataError(item) ==
  IF ~Has(item, "fileName") THEN "fileName is required"
  ELSE IF ~Has(item, "contentType") THEN "contentType is required"
  ELSE IF item.contentType \notin MimeTypes
    THEN "contentType must be a valid MIME type"
  ELSE IF ~Has(item, "userId") THEN "userId is required"
  ELSE None

\* The first failing rule of the signed-URL requestBodySchema, or None.
SignSchemaError(body) ==
  IF ~Has(body, "filesMetadata") THEN "filesMetadata is required"
  ELSE IF \E i \in 1..Len(body.filesMetadata) :
            FileMetadataError(body.filesMetadata[i]) # None
    THEN LET i == CHOOSE j \in 1..Len(body.filesMetadata) :
                    /\ FileMetadataError(body.filesMetadata[j]) # None
                    /\ \A k \in 1..(j - 1) :
                         FileMetadataError(body.filesMetadata[k]) = None
         IN FileMetadataError(body.filesMetadata[i])
  ELSE IF Len(body.filesMetadata) < 1
    THEN "filesMetadata must contain at least one item"
  ELSE IF DOMAIN body \ {"kind", "filesMetadata"} # {}
    THEN "\"invalidField\" is not allowed"
  ELSE None

\* ------------------------------------------------------------------------
\* lambda/media/generate-signed-urls/index.ts
\* ------------------------------------------------------------------------

SignParseRequestBody(body) ==
  IF body.kind \in {"missing", "empty"} THEN Thrown("Request body is missing.")
  ELSE IF body.kind = "invalid-json" THEN Thrown("Invalid JSON format.")
  ELSE LET error == SignSchemaError(body)
       IN IF error # None THEN Thrown("Invalid request: " \o error)
          ELSE Parsed(body)

\* new Date() for the clock value t: one tick of the clock is a month, and
\* the clock starts in December 2023.
FullYear(t) == 2023 + ((11 + t) \div 12)

\* Date.getMonth(): 0 for January.
Month(t) == (11 + t) % 12

\* String.padStart(2, '0').
PadStart2(str) == IF Len(str) < 2 THEN "0" \o str ELSE str

\* uuidv4(): the n-th token generated; no token is generated twice.
uuidv4(n) == "uuid" \o ToString(n)

\* A key without the token.
createKeyNoToken(userId, fileName, t, uuid) ==
  "user/" \o userId \o "/" \o ToString(FullYear(t)) \o "/"
    \o PadStart2(ToString(Month(t) + 1)) \o "/" \o fileName

\* createKey at clock value t with the token uuid.
createKey(userId, fileName, t, uuid) ==
  "user/" \o userId \o "/" \o ToString(FullYear(t)) \o "/"
    \o PadStart2(ToString(Month(t) + 1)) \o "/" \o uuid \o "_" \o fileName

\* Number(process.env.X) for the strings the model uses.
NumberOf == ("300" :> 300) @@ ("" :> 0)

\* A variable of process.env is set to a non-empty string.
IsSet(envf, name) == Has(envf, name) /\ envf[name] # ""

\* isNaN(Number(process.env.S3_URL_TTL))
TtlIsNaN(envf) ==
  ~Has(envf, "S3_URL_TTL") \/ envf["S3_URL_TTL"] \notin DOMAIN NumberOf

\* S3_URL_TTL
UrlTtl(envf) == NumberOf[envf["S3_URL_TTL"]]

\* The PutObjectCommand and options a URL is signed for.
SignRequest(bucket, key, contentType, expiresIn) ==
  [Bucket |-> bucket, Key |-> key, ContentType |-> contentType,
   expiresIn |-> expiresIn]

\* The URL getSignedUrl returns for a request: it names what it was signed for.
SignedUrl(request) == [signedFor |-> request]

\* ------------------------------------------------------------------------
\* Environment variables and module load
\* ------------------------------------------------------------------------

\* The environment the stack gives each function.
DeployedEnv ==
  [write |-> [STACK_METADATA_TABLE |-> "StackMetadataTable",
              STACK_METADATA_GSI |-> "StackMetadataGSI",
              MEDIA_METADATA_TABLE |-> "MediaMetadataTable",
              MEDIA_METADATA_GSI |-> "MediaMetadataGSI"],
   read |-> [STACK_METADATA_TABLE |-> "StackMetadataTable",
             STACK_METADATA_GSI |-> "StackMetadataGSI",
             MEDIA_METADATA_TABLE |-> "MediaMetadataTable",
             MEDIA_METADATA_GSI |-> "MediaMetadataGSI"],
   sign |-> [S3_BUCKET_NAME |-> "media-bucket", S3_URL_TTL |-> "300",
             CDN_DOMAIN_URL |-> "random.cloudfront.net"]]

\* Loading lambda/media/write/index.ts: the module reads the two table names
\* and checks nothing.
WriteModuleLoad(envf) == "loaded"

\* Loading lambda/media/read/index.ts: the first missing variable throws.
ReadModuleLoad(envf) ==
  IF ~IsSet(envf, "STACK_METADATA_TABLE")
    THEN "STACK_METADATA_TABLE environment variable is missing."
  ELSE IF ~IsSet(envf, "STACK_METADATA_GSI")
    THEN "STACK_METADATA_GSI environment variable is missing."
  ELSE IF ~IsSet(envf, "MEDIA_METADATA_TABLE")
    THEN "MEDIA_METADATA_TABLE environment variable is missing."
  ELSE IF ~IsSet(envf, "MEDIA_METADATA_GSI")
    THEN "MEDIA_METADATA_GSI environment variable is missing."
  ELSE "loaded"

\* Loading lambda/media/generate-signed-urls/index.ts.
SignModuleLoad(envf) ==
  IF ~IsSet(envf, "S3_BUCKET_NAME")
    THEN "S3_BUCKET_NAME environment variable is missing."
  ELSE IF TtlIsNaN(envf)
    THEN "S3_URL_TTL environment variable is not a valid number"
  ELSE IF ~IsSet(envf, "CDN_DOMAIN_URL")
    THEN "CDN_DOMAIN_URL environment variable is missing."
  ELSE "loaded"

VARIABLES
  now,          \* Date.now()
  stackTable,   \* StackMetadataTable: stored stackId -> item
  mediaTable,   \* MediaMetadataTable: stored mediaId -> item
  writer,       \* per invocation of the write handler: its progress
  reader,       \* per invocation of the read handler: its progress
  signer,       \* per invocation of the signed-URL handler: its progress
  uuids,        \* the number of tokens uuidv4 has generated
  env,          \* process.env of each function: the variables that are set
  loaded        \* per handler module: "unloaded", "loaded" or the load error

vars == <<now, stackTable, mediaTable, writer, reader, signer, uuids, env, loaded>>

NoParams == [stackLimit |-> 0, startTimestamp |-> 0, endTimestamp |-> 0]

IdleReader ==
  [pc |-> "idle", body |-> MissingBody, params |-> NoParams, reqTime |-> 0,
   stackQueries |-> 0, mediaQueries |-> 0, stackAnswer |-> "none",
   stacks |-> << >>,
   lookups |-> << >>, mediaResponses |-> << >>, order |-> << >>,
   resp |-> NoResponse]

IdleSigner ==
  [pc |-> "idle", body |-> MissingBody, reqTime |-> 0, calls |-> << >>,
   order |-> << >>, resp |-> NoResponse]

IdleWriter ==
  [pc |-> "idle", body |-> MissingBody, ops |-> << >>, puts |-> 0,
   resp |-> NoResponse, preStack |-> {}, preMedia |-> << >>, prior |-> {}]

Init ==
  /\ now = 0
  /\ stackTable = EmptyTable
  /\ mediaTable = EmptyTable
  /\ writer = [w \in Writers |-> IdleWriter]
  /\ reader = [r \in Readers |-> IdleReader]
  /\ signer = [g \in Signers |-> IdleSigner]
  /\ uuids = 0
  /\ env = DeployedEnv
  /\ loaded = [write |-> WriteModuleLoad(DeployedEnv.write),
               read |-> ReadModuleLoad(DeployedEnv.read),
               sign |-> SignModuleLoad(DeployedEnv.sign)]

\* The clock advances.
Tick ==
  /\ now < MaxTime
  /\ now' = now + 1
  /\ UNCHANGED <<stackTable, mediaTable, writer, reader, signer, uuids, env, loaded>>

\* The write handler up to `await Promise.all(...)`: parse, then issue the
\* stack put (op 1) and one put per media item (ops 2..N+1).
WriteHandle(w) ==
  /\ loaded.write = "loaded"
  /\ writer[w].pc = "idle"
  /\ \E body \in WriteBodies :
       LET parsed == WriteParseRequestBody(body, now) IN
       IF parsed.error # None
         THEN writer' = [writer EXCEPT ![w] =
                [IdleWriter EXCEPT
                   !.pc = "done", !.body = body,
                   !.resp = createResponse(ValidationErrorStatus, parsed.error)]]
         ELSE LET req == parsed.value IN
              writer' = [writer EXCEPT ![w] =
                [pc |-> "awaiting", body |-> body,
                 ops |-> [i \in 1..(Len(req.media) + 1) |-> "inflight"],
                 puts |-> Len(req.media) + 1,
                 resp |-> NoResponse,
                 preStack |-> Lookup(stackTable, req.stackId),
                 preMedia |-> [i \in 1..Len(req.media) |->
                                 Lookup(mediaTable, req.media[i].mediaId)],
                 prior |-> {x \in Writers : writer[x].pc = "done"}]]
  /\ UNCHANGED <<now, stackTable, mediaTable, reader, signer, uuids, env, loaded>>

\* The errors the store rejects a put with, other than the failed condition.
StoreErrors == {"DynamoDB error", "ProvisionedThroughputExceededException"}

\* A catch that answers with the message of the error it caught.
WriteCatchLeaky(error) == createResponse(500, error)

\* The write handler's catch for an error that is no ValidationError.
WriteCatch(error) == createResponse(500, "Failed to save metadata.")

\* Promise.any in place of Promise.all: resolved by the first resolved putItem.
WriteJoinFirstSettled(wr, ops, error) ==
  IF wr.pc # "awaiting" THEN [wr EXCEPT !.ops = ops]
  ELSE IF \E k \in 1..Len(ops) : ops[k] # "inflight" /\ putItem(ops[k]) = "resolved"
    THEN [wr EXCEPT !.ops = ops, !.pc = "done",
                    !.resp = createResponse(200, "Media metadata saved successfully!")]
  ELSE IF \A k \in 1..Len(ops) : ops[k] # "inflight"
    THEN [wr EXCEPT !.ops = ops, !.pc = "done", !.resp = WriteCatch(error)]
  ELSE [wr EXCEPT !.ops = ops]

\* Promise.all over the puts: rejected by the first rejected putItem, resolved
\* once every putItem has resolved. ops holds the store's answer to each put,
\* error is what the store answered the put that has just settled.
WriteJoin(wr, ops, error) ==
  IF wr.pc # "awaiting" THEN [wr EXCEPT !.ops = ops]
  ELSE IF \E k \in 1..Len(ops) : ops[k] # "inflight" /\ putItem(ops[k]) = "rejected"
    THEN [wr EXCEPT !.ops = ops, !.pc = "done", !.resp = WriteCatch(error)]
  ELSE IF \A k \in 1..Len(ops) : ops[k] # "inflight"
    THEN [wr EXCEPT !.ops = ops, !.pc = "done",
                    !.resp = createResponse(200, "Media metadata saved successfully!")]
  ELSE [wr EXCEPT !.ops = ops]

\* The stack item a validated write request stores.
StackItemOf(req) ==
  StackItem(req.stackId, req.caption, req.uploadTimestamp,
            IF Has(req, "location") THEN req.location ELSE None)

\* saveMediaMetadata called with the one-based position.
MediaItemOfOneBased(req, i) == MediaItem(req.media[i], req.stackId, i)

\* The media item a validated write request stores for media[i] (1-based i).
MediaItemOf(req, i) == MediaItem(req.media[i], req.stackId, i - 1)

\* The store answers the stack put of w (op 1); a put that names no table
\* does not reach the store.
StackPutAnswered(w) ==
  /\ IsSet(env.write, "STACK_METADATA_TABLE")
  /\ writer[w].ops # << >>
  /\ writer[w].ops[1] = "inflight"
  /\ LET req == writer[w].body
         answer == PutAnswer(stackTable, req.stackId)
         ops == [writer[w].ops EXCEPT ![1] = answer]
     IN /\ stackTable' = ConditionalPut(stackTable, req.stackId, StackItemOf(req))
        /\ writer' = [writer EXCEPT ![w] = WriteJoin(writer[w], ops, answer)]
  /\ UNCHANGED <<now, mediaTable, reader, signer, uuids, env, loaded>>

\* The store answers the put of media item i of w (op i + 1).
MediaPutAnswered(w, i) ==
  /\ IsSet(env.write, "MEDIA_METADATA_TABLE")
  /\ i + 1 \in DOMAIN writer[w].ops
  /\ writer[w].ops[i + 1] = "inflight"
  /\ LET req == writer[w].body
         item == MediaItemOf(req, i)
         answer == PutAnswer(mediaTable, item.mediaId)
         ops == [writer[w].ops EXCEPT ![i + 1] = answer]
     IN /\ mediaTable' = ConditionalPut(mediaTable, item.mediaId, item)
        /\ writer' = [writer EXCEPT ![w] = WriteJoin(writer[w], ops, answer)]
  /\ UNCHANGED <<now, stackTable, reader, signer, uuids, env, loaded>>

\* A failed put that compensates: the items the request's puts had inserted
\* are deleted again.
PutFailedWithRollback(w, k) ==
  /\ k \in DOMAIN writer[w].ops
  /\ writer[w].ops[k] = "inflight"
  /\ LET req == writer[w].body
         ops == [writer[w].ops EXCEPT ![k] = "error"]
         undoStack == IF ops[1] = "ok" THEN {req.stackId} ELSE {}
         undoMedia == { req.media[i].mediaId :
                          i \in { j \in 1..Len(req.media) : ops[j + 1] = "ok" } }
     IN /\ \E error \in StoreErrors :
             writer' = [writer EXCEPT ![w] = WriteJoin(writer[w], ops, error)]
        /\ stackTable' = [x \in DOMAIN stackTable \ undoStack |-> stackTable[x]]
        /\ mediaTable' = [x \in DOMAIN mediaTable \ undoMedia |-> mediaTable[x]]
  /\ UNCHANGED <<now, reader, signer, uuids, env, loaded>>

\* A putItem that sends its put again when the store failed it.
PutFailedRetried(w, k) ==
  /\ k \in DOMAIN writer[w].ops
  /\ writer[w].ops[k] = "inflight"
  /\ writer' = [writer EXCEPT ![w].puts = @ + 1]
  /\ UNCHANGED <<now, stackTable, mediaTable, reader, signer, uuids, env, loaded>>

\* The store fails put k of w for another reason; nothing is stored.
PutFailed(w, k) ==
  /\ k \in DOMAIN writer[w].ops
  /\ writer[w].ops[k] = "inflight"
  /\ \E error \in StoreErrors :
       writer' = [writer EXCEPT ![w] =
                    WriteJoin(writer[w], [writer[w].ops EXCEPT ![k] = "error"],
                              error)]
  /\ UNCHANGED <<now, stackTable, mediaTable, reader, signer, uuids, env, loaded>>

WriteNext ==
  \/ Tick
  \/ \E w \in Writers : WriteHandle(w)
  \/ \E w \in Writers : StackPutAnswered(w)
  \/ \E w \in Writers : \E i \in 1..(Len(writer[w].ops) - 1) : MediaPutAnswered(w, i)
  \/ \E w \in Writers : \E k \in DOMAIN writer[w].ops : PutFailed(w, k)

SpecWrite == Init /\ [][WriteNext]_vars

\* ------------------------------------------------------------------------
\* The read handler and the puts of concurrent write invocations
\* ------------------------------------------------------------------------

\* The stack put of some write invocation is answered by the store; its
\* request passed validation at or before the current time.
ConcurrentStackPut ==
  /\ \E req \in ConcurrentWriteBodies :
       /\ req.uploadTimestamp <= now
       /\ stackTable' = ConditionalPut(stackTable, req.stackId, StackItemOf(req))
  /\ UNCHANGED <<now, mediaTable, writer, reader, signer, uuids, env, loaded>>

\* A media put of some write invocation is answered by the store.
ConcurrentMediaPut ==
  /\ \E req \in ConcurrentWriteBodies : \E i \in 1..Len(req.media) :
       /\ req.uploadTimestamp <= now
       /\ mediaTable' = ConditionalPut(mediaTable, req.media[i].mediaId,
                                       MediaItemOf(req, i))
  /\ UNCHANGED <<now, stackTable, writer, reader, signer, uuids, env, loaded>>

\* The read handler up to `await queryStackMetadataTable(...)`.
ReadHandle(r) ==
  /\ loaded.read = "loaded"
  /\ reader[r].pc = "idle"
  /\ \E body \in ReadBodies :
       LET parsed == ReadParseRequestBody(body, now) IN
       IF parsed.error # None
         THEN reader' = [reader EXCEPT ![r] =
                [IdleReader EXCEPT
                   !.pc = "done", !.body = body, !.reqTime = now,
                   !.resp = createErrorResponse(ValidationErrorStatus, parsed.error)]]
         ELSE reader' = [reader EXCEPT ![r] =
                [IdleReader EXCEPT
                   !.pc = "querying", !.body = body, !.reqTime = now,
                   !.params = parsed.value, !.stackQueries = 1]]
  /\ UNCHANGED <<now, stackTable, mediaTable, writer, signer, uuids, env, loaded>>

\* The errors the store rejects a query with.
QueryErrors == {"DynamoDB query failed", "ResourceNotFoundException"}

\* A handler without the catch: the error leaves the handler, no response
\* is built.
ReadCatchRethrows(error) == NoResponse

\* The read handler's catch for an error that is no ValidationError.
ReadCatch(error) == createErrorResponse(500, "Internal server error.")

\* The stack query fails: the handler's catch answers 500.
StackQueryFailed(r) ==
  /\ reader[r].pc = "querying"
  /\ \E error \in QueryErrors :
       reader' = [reader EXCEPT ![r].pc = "done", ![r].stackAnswer = "error",
                                ![r].resp = ReadCatch(error)]
  /\ UNCHANGED <<now, stackTable, mediaTable, writer, signer, uuids, env, loaded>>

\* AfterStackQuery without the `stacks.length === 0` check: the fan-out runs
\* over the empty list and the handler answers 200.
AfterStackQueryNoEmptyCheck(rd, stacks) ==
  LET bad == FirstWithoutStackId(stacks) IN
  IF Len(stacks) = 0
    THEN [rd EXCEPT !.pc = "done",
                    !.resp = [statusCode |-> 200, stackAndMediaData |-> << >>]]
  ELSE IF bad # 0
    THEN [rd EXCEPT !.pc = "done", !.stacks = stacks,
                    !.lookups = [i \in DOMAIN stacks |->
                                   IF i < bad THEN "inflight" ELSE "unissued"],
                    !.mediaResponses = [i \in DOMAIN stacks |-> [Items |-> {}]],
                    !.mediaQueries = bad - 1,
                    !.resp = ReadCatch("stackId field is missing from stack")]
  ELSE [rd EXCEPT !.pc = "awaiting", !.stacks = stacks,
                  !.lookups = [i \in DOMAIN stacks |-> "inflight"],
                  !.mediaResponses = [i \in DOMAIN stacks |-> [Items |-> {}]],
                  !.mediaQueries = Len(stacks)]

\* A loop that awaits each lookup before it issues the next: only the lookup
\* of the first stack is issued when the handler suspends.
AfterStackQuerySequential(rd, stacks) ==
  LET bad == FirstWithoutStackId(stacks) IN
  IF Len(stacks) = 0
    THEN [rd EXCEPT !.pc = "done",
                    !.resp = createErrorResponse(404, "No stacks found!")]
  ELSE IF bad = 1
    THEN [rd EXCEPT !.pc = "done", !.stacks = stacks,
                    !.lookups = [i \in DOMAIN stacks |-> "unissued"],
                    !.mediaResponses = [i \in DOMAIN stacks |-> [Items |-> {}]],
                    !.resp = ReadCatch("stackId field is missing from stack")]
  ELSE [rd EXCEPT !.pc = "awaiting", !.stacks = stacks,
                  !.lookups = [i \in DOMAIN stacks |->
                                 IF i = 1 THEN "inflight" ELSE "unissued"],
                  !.mediaResponses = [i \in DOMAIN stacks |-> [Items |-> {}]],
                  !.mediaQueries = 1]

\* The reader after the stack query returned stacks: 404 when there is none,
\* else one media lookup per stack, issued in order until a stack without
\* stackId makes stacks.map throw.
AfterStackQuery(rd, stacks) ==
  LET bad == FirstWithoutStackId(stacks) IN
  IF Len(stacks) = 0
    THEN [rd EXCEPT !.pc = "done",
                    !.resp = createErrorResponse(404, "No stacks found!")]
  ELSE IF bad # 0
    THEN [rd EXCEPT !.pc = "done", !.stacks = stacks,
                    !.lookups = [i \in DOMAIN stacks |->
                                   IF i < bad THEN "inflight" ELSE "unissued"],
                    !.mediaResponses = [i \in DOMAIN stacks |-> [Items |-> {}]],
                    !.mediaQueries = bad - 1,
                    !.resp = ReadCatch("stackId field is missing from stack")]
  ELSE [rd EXCEPT !.pc = "awaiting", !.stacks = stacks,
                  !.lookups = [i \in DOMAIN stacks |-> "inflight"],
                  !.mediaResponses = [i \in DOMAIN stacks |-> [Items |-> {}]],
                  !.mediaQueries = Len(stacks)]

\* The store answers the stack query; the handler runs up to
\* `await Promise.all(mediaPromises)`.
StackQueryAnswered(r) ==
  /\ reader[r].pc = "querying"
  /\ \E response \in StackQueryAnswers(stackTable, reader[r].params) :
       reader' = [reader EXCEPT ![r] =
         AfterStackQuery([reader[r] EXCEPT !.stackAnswer =
                            IF Has(response, "Items") THEN "items" ELSE "no-items"],
                         ItemsOrEmpty(response))]
  /\ UNCHANGED <<now, stackTable, mediaTable, writer, signer, uuids, env, loaded>>

\* A join that waits for every lookup to settle and treats a failed one as
\* an empty result.
ReadJoinAllSettled(rd, error) ==
  IF rd.pc # "awaiting" THEN rd
  ELSE IF \A i \in DOMAIN rd.lookups : rd.lookups[i] \in {"ok", "failed"}
    THEN [rd EXCEPT !.pc = "done",
                    !.resp = [statusCode |-> 200,
                              stackAndMediaData |->
                                stackAndMediaData(rd.stacks, rd.mediaResponses, rd.order)]]
  ELSE rd

\* Promise.all over the media lookups: rejected by the first failed lookup,
\* resolved once every lookup has resolved; then the 200 response is built.
\* error is what the lookup that has just settled was rejected with, if it was.
ReadJoin(rd, error) ==
  IF rd.pc # "awaiting" THEN rd
  ELSE IF \E i \in DOMAIN rd.lookups : rd.lookups[i] = "failed"
    THEN [rd EXCEPT !.pc = "done", !.resp = ReadCatch(error)]
  ELSE IF \A i \in DOMAIN rd.lookups : rd.lookups[i] = "ok"
    THEN [rd EXCEPT !.pc = "done",
                    !.resp = [statusCode |-> 200,
                              stackAndMediaData |->
                                stackAndMediaData(rd.stacks, rd.mediaResponses, rd.order)]]
  ELSE rd

\* The store answers the media lookup of stack i.
MediaQueryAnswered(r, i) ==
  /\ i \in DOMAIN reader[r].lookups
  /\ reader[r].lookups[i] = "inflight"
  /\ LET rd == reader[r]
         items == queryMediaMetadataTable(mediaTable, StackIdOf(rd.stacks[i]))
     IN reader' = [reader EXCEPT ![r] =
          ReadJoin([rd EXCEPT !.lookups[i] = "ok",
                              !.mediaResponses[i] = [Items |-> items],
                              !.order = Append(rd.order, i)], None)]
  /\ UNCHANGED <<now, stackTable, mediaTable, writer, signer, uuids, env, loaded>>

\* The media lookup of stack i fails.
MediaQueryFailed(r, i) ==
  /\ i \in DOMAIN reader[r].lookups
  /\ reader[r].lookups[i] = "inflight"
  /\ \E error \in QueryErrors :
       reader' = [reader EXCEPT ![r] =
         ReadJoin([reader[r] EXCEPT !.lookups[i] = "failed",
                                    !.order = Append(reader[r].order, i)], error)]
  /\ UNCHANGED <<now, stackTable, mediaTable, writer, signer, uuids, env, loaded>>

ReadNext ==
  \/ Tick
  \/ ConcurrentStackPut
  \/ ConcurrentMediaPut
  \/ \E r \in Readers : ReadHandle(r)
  \/ \E r \in Readers : StackQueryFailed(r)
  \/ \E r \in Readers : StackQueryAnswered(r)
  \/ \E r \in Readers : \E i \in DOMAIN reader[r].lookups : MediaQueryAnswered(r, i)
  \/ \E r \in Readers : \E i \in DOMAIN reader[r].lookups : MediaQueryFailed(r, i)

SpecRead == Init /\ [][ReadNext]_vars

\* ------------------------------------------------------------------------
\* The signed-URL handler
\* ------------------------------------------------------------------------

\* getSignedUrlPromiseAndKey up to `await getSignedUrl(...)`, for the n-th
\* token: the key and the signing request that was started.
SigningCall(fileMetadata, t, n, envf) ==
  LET key == createKey(fileMetadata.userId, fileMetadata.fileName, t, uuidv4(n))
  IN [key |-> key, state |-> "inflight",
      request |-> SignRequest(envf["S3_BUCKET_NAME"], key,
                              fileMetadata.contentType, UrlTtl(envf))]

\* The signed-URL handler up to `await Promise.all(...)`: parse, then one key
\* and one signing call per file, in the order of filesMetadata.
SignHandle(g) ==
  /\ loaded.sign = "loaded"
  /\ signer[g].pc = "idle"
  /\ \E body \in SignBodies :
       LET parsed == SignParseRequestBody(body) IN
       IF parsed.error # None
         THEN /\ signer' = [signer EXCEPT ![g] =
                   [IdleSigner EXCEPT
                      !.pc = "done", !.body = body, !.reqTime = now,
                      !.resp = createErrorResponse(ValidationErrorStatus,
                                                   parsed.error)]]
              /\ uuids' = uuids
         ELSE LET files == parsed.value.filesMetadata IN
              /\ signer' = [signer EXCEPT ![g] =
                   [IdleSigner EXCEPT
                      !.pc = "awaiting", !.body = body, !.reqTime = now,
                      !.calls = [i \in 1..Len(files) |->
                                   SigningCall(files[i], now, uuids + i, env.sign)]]]
              /\ uuids' = uuids + Len(files)
  /\ UNCHANGED <<now, stackTable, mediaTable, writer, reader, env, loaded>>

\* The entries in the order the signing calls completed.
EntriesByCompletion(calls, order) ==
  [i \in DOMAIN calls |->
     [uploadUrl |-> calls[order[i]].uploadUrl, key |-> calls[order[i]].key]]

\* The result of Promise.all(signedUrlPromisesAndKeys): entry i is what the
\* promise of file i resolved to; order is the order the calls completed in.
signedUrlsAndKeys(calls, order) ==
  [i \in DOMAIN calls |-> [uploadUrl |-> calls[i].uploadUrl, key |-> calls[i].key]]

\* The errors getSignedUrl rejects with.
SignerErrors == {"S3 error", "CredentialsProviderError"}

\* The signed-URL handler's catch for an error that is no ValidationError.
SignCatch(error) == createErrorResponse(500, "Internal server error.")

\* A join that waits for every call and keeps the URLs that were signed.
SignJoinKeepSigned(sg, cdn, error) ==
  IF sg.pc # "awaiting" THEN sg
  ELSE IF \A i \in DOMAIN sg.calls : sg.calls[i].state \in {"signed", "failed"}
    THEN [sg EXCEPT !.pc = "done",
                    !.resp = [statusCode |-> 200,
                              signedUrlsAndKeys |->
                                SelectSeq(sg.calls, LAMBDA c : c.state = "signed"),
                              cdnDomainUrl |-> cdn]]
  ELSE sg

\* Promise.all over the signing calls: rejected by the first failed call,
\* resolved once every call has resolved; then the 200 response is built.
SignJoin(sg, cdn, error) ==
  IF sg.pc # "awaiting" THEN sg
  ELSE IF \E i \in DOMAIN sg.calls : sg.calls[i].state = "failed"
    THEN [sg EXCEPT !.pc = "done", !.resp = SignCatch(error)]
  ELSE IF \A i \in DOMAIN sg.calls : sg.calls[i].state = "signed"
    THEN [sg EXCEPT !.pc = "done",
                    !.resp = [statusCode |-> 200,
                              signedUrlsAndKeys |->
                                signedUrlsAndKeys(sg.calls, sg.order),
                              cdnDomainUrl |-> cdn]]
  ELSE sg

\* getSignedUrl resolves for file i of g.
UrlSigned(g, i) ==
  /\ i \in DOMAIN signer[g].calls
  /\ signer[g].calls[i].state = "inflight"
  /\ LET sg == signer[g]
         call == sg.calls[i]
         done == [key |-> call.key, state |-> "signed", request |-> call.request,
                  uploadUrl |-> SignedUrl(call.request)]
     IN signer' = [signer EXCEPT ![g] =
          SignJoin([sg EXCEPT !.calls[i] = done, !.order = Append(sg.order, i)],
                   env.sign["CDN_DOMAIN_URL"], None)]
  /\ UNCHANGED <<now, stackTable, mediaTable, writer, reader, uuids, env, loaded>>

\* getSignedUrl rejects for file i of g.
SignFailed(g, i) ==
  /\ i \in DOMAIN signer[g].calls
  /\ signer[g].calls[i].state = "inflight"
  /\ \E error \in SignerErrors :
       signer' = [signer EXCEPT ![g] =
         SignJoin([signer[g] EXCEPT !.calls[i].state = "failed",
                                    !.order = Append(signer[g].order, i)],
                  env.sign["CDN_DOMAIN_URL"], error)]
  /\ UNCHANGED <<now, stackTable, mediaTable, writer, reader, uuids, env, loaded>>

SignNext ==
  \/ Tick
  \/ \E g \in Signers : SignHandle(g)
  \/ \E g \in Signers : \E i \in DOMAIN signer[g].calls : UrlSigned(g, i)
  \/ \E g \in Signers : \E i \in DOMAIN signer[g].calls : SignFailed(g, i)

SpecSign == Init /\ [][SignNext]_vars

\* ------------------------------------------------------------------------
\* The three handlers side by side
\* ------------------------------------------------------------------------

\* The requests sent while the three handlers run concurrently: two writes of
\* the same stackId and mediaId with different payloads, a write of another
\* stack, one read, one signed-URL request, and the bodies that cannot be
\* parsed.
SharedWriteBodies ==
  { WriteBody("s1", 1, 0, <<"m1">>), WriteBody("s1", 2, MaxTime, <<"m1">>),
    WriteBody("s2", 2, MaxTime, <<"m1">>), MissingBody, EmptyBody, InvalidJson }

SharedReadBodies == { ReadBody(2, 0, 1), MissingBody, EmptyBody, InvalidJson }

SharedSignBodies == { SignBody(<<FileA>>), MissingBody, EmptyBody, InvalidJson }

AllNext ==
  \/ Tick
  \/ \E w \in Writers : WriteHandle(w) /\ writer'[w].body \in SharedWriteBodies
  \/ \E w \in Writers : StackPutAnswered(w)
  \/ \E w \in Writers : \E i \in 1..(Len(writer[w].ops) - 1) : MediaPutAnswered(w, i)
  \/ \E w \in Writers : \E k \in DOMAIN writer[w].ops : PutFailed(w, k)
  \/ \E r \in Readers : ReadHandle(r) /\ reader'[r].body \in SharedReadBodies
  \/ \E r \in Readers : StackQueryFailed(r)
  \/ \E r \in Readers : StackQueryAnswered(r)
  \/ \E r \in Readers : \E i \in DOMAIN reader[r].lookups : MediaQueryAnswered(r, i)
  \/ \E r \in Readers : \E i \in DOMAIN reader[r].lookups : MediaQueryFailed(r, i)
  \/ SignHandle("g1") /\ signer'["g1"].body \in SharedSignBodies
  \/ \E i \in DOMAIN signer["g1"].calls : UrlSigned("g1", i)
  \/ \E i \in DOMAIN signer["g1"].calls : SignFailed("g1", i)

SpecAll == Init /\ [][AllNext]_vars

\* ------------------------------------------------------------------------
\* Module load under any environment
\* ------------------------------------------------------------------------

\* The functions over a subset of the names of f: f with variables left out.
SubEnvs(f) == { [n \in names |-> f[n]] : names \in SUBSET DOMAIN f }

\* The environments a function can be started with: variables of the
\* deployed environment may be missing, S3_URL_TTL may be no number or empty.
Envs ==
  { [write |-> w, read |-> r, sign |-> g] :
      w \in SubEnvs([n \in {"STACK_METADATA_TABLE", "MEDIA_METADATA_TABLE"} |->
                       DeployedEnv.write[n]]),
      r \in SubEnvs(DeployedEnv.read),
      g \in SubEnvs(DeployedEnv.sign)
            \cup { [f EXCEPT !["S3_URL_TTL"] = ttl] :
                     f \in { e \in SubEnvs(DeployedEnv.sign) : Has(e, "S3_URL_TTL") },
                     ttl \in {"invalid_number", ""} } }

LoadInit ==
  /\ now = 0
  /\ stackTable = EmptyTable
  /\ mediaTable = EmptyTable
  /\ writer = [w \in Writers |-> IdleWriter]
  /\ reader = [r \in Readers |-> IdleReader]
  /\ signer = [g \in Signers |-> IdleSigner]
  /\ uuids = 0
  /\ env \in Envs
  /\ loaded = [write |-> "unloaded", read |-> "unloaded", sign |-> "unloaded"]

\* The runtime loads the write handler's module.
LoadWriteModule ==
  /\ loaded.write = "unloaded"
  /\ loaded' = [loaded EXCEPT !.write = WriteModuleLoad(env.write)]
  /\ UNCHANGED <<now, stackTable, mediaTable, writer, reader, signer, uuids, env>>

\* The runtime loads the read handler's module.
LoadReadModule ==
  /\ loaded.read = "unloaded"
  /\ loaded' = [loaded EXCEPT !.read = ReadModuleLoad(env.read)]
  /\ UNCHANGED <<now, stackTable, mediaTable, writer, reader, signer, uuids, env>>

\* The runtime loads the signed-URL handler's module.
LoadSignModule ==
  /\ loaded.sign = "unloaded"
  /\ loaded' = [loaded EXCEPT !.sign = SignModuleLoad(env.sign)]
  /\ UNCHANGED <<now, stackTable, mediaTable, writer, reader, signer, uuids, env>>

\* One request per handler after its module was loaded.
LoadWriteBodies == { WriteBody("s1", 1, 0, <<"m1">>), MissingBody }

LoadReadBodies == { ReadBody(2, 0, 1), MissingBody }

LoadSignBodies == { SignBody(<<FileA>>), MissingBody }

LoadNext ==
  \/ LoadWriteModule
  \/ LoadReadModule
  \/ LoadSignModule
  \/ WriteHandle("w1") /\ writer'["w1"].body \in LoadWriteBodies
  \/ StackPutAnswered("w1")
  \/ MediaPutAnswered("w1", 1)
  \/ \E k \in DOMAIN writer["w1"].ops : PutFailed("w1", k)
  \/ ReadHandle("r1") /\ reader'["r1"].body \in LoadReadBodies
  \/ StackQueryFailed("r1")
  \/ StackQueryAnswered("r1")
  \/ \E i \in DOMAIN reader["r1"].lookups : MediaQueryAnswered("r1", i)
  \/ \E i \in DOMAIN reader["r1"].lookups : MediaQueryFailed("r1", i)
  \/ SignHandle("g1") /\ signer'["g1"].body \in LoadSignBodies
  \/ \E i \in DOMAIN signer["g1"].calls : UrlSigned("g1", i)
  \/ \E i \in DOMAIN signer["g1"].calls : SignFailed("g1", i)

SpecLoad == LoadInit /\ [][LoadNext]_vars

\* ------------------------------------------------------------------------
\* One invocation of each handler whose calls all settle
\* ------------------------------------------------------------------------

\* The media ids and the files of the largest requests sent.
LiveMediaIds == <<"m1", "m2">>

LiveFiles == <<FileA, FileB>>

LiveWriteBodies ==
  { WriteBody("s1", 1, 0, LiveMediaIds), WriteBody("s2", 2, MaxTime, <<"m1">>),
    Without(BaseWriteBody, "caption"), MissingBody, InvalidJson }

LiveReadBodies ==
  { ReadBody(2, 0, MaxTime), ReadBody(0, 0, MaxTime), MissingBody, InvalidJson }

LiveSignBodies ==
  { SignBody(LiveFiles), [kind |-> "json"], MissingBody, InvalidJson }

LiveNext ==
  \/ Tick
  \/ WriteHandle("w1") /\ writer'["w1"].body \in LiveWriteBodies
  \/ StackPutAnswered("w1")
  \/ \E i \in 1..(Len(writer["w1"].ops) - 1) : MediaPutAnswered("w1", i)
  \/ \E k \in DOMAIN writer["w1"].ops : PutFailed("w1", k)
  \/ ReadHandle("r1") /\ reader'["r1"].body \in LiveReadBodies
  \/ StackQueryFailed("r1")
  \/ StackQueryAnswered("r1")
  \/ \E i \in DOMAIN reader["r1"].lookups : MediaQueryAnswered("r1", i)
  \/ \E i \in DOMAIN reader["r1"].lookups : MediaQueryFailed("r1", i)
  \/ SignHandle("g1") /\ signer'["g1"].body \in LiveSignBodies
  \/ \E i \in DOMAIN signer["g1"].calls : UrlSigned("g1", i)
  \/ \E i \in DOMAIN signer["g1"].calls : SignFailed("g1", i)

\* Every call to the store or the signer that was issued settles: it is
\* answered or it fails.
CallsSettle ==
  /\ WF_vars(StackPutAnswered("w1") \/ PutFailed("w1", 1))
  /\ \A i \in DOMAIN LiveMediaIds :
       WF_vars(MediaPutAnswered("w1", i) \/ PutFailed("w1", i + 1))
  /\ WF_vars(StackQueryAnswered("r1") \/ StackQueryFailed("r1"))
  /\ \A i \in 1..Cardinality(StackIds) :
       WF_vars(MediaQueryAnswered("r1", i) \/ MediaQueryFailed("r1", i))
  /\ \A i \in DOMAIN LiveFiles :
       WF_vars(UrlSigned("g1", i) \/ SignFailed("g1", i))

SpecLive == Init /\ [][LiveNext]_vars /\ CallsSettle

\* ------------------------------------------------------------------------
\* Properties of the write handler
\* ------------------------------------------------------------------------

\* w got past validation and issued its puts.
Issued(w) == writer[w].ops # << >>

\* Every put of w was answered, none with an error other than "key exists".
AllStoredOrPresent(w) ==
  /\ Issued(w)
  /\ \A k \in 1..Len(writer[w].ops) :
       writer[w].ops[k] \in {"ok", "ConditionalCheckFailedException"}

Ok200 == createResponse(200, "Media metadata saved successfully!")

\* C1: when two writes carry the same stackId, the first one's put inserting
\* the stack and the second one's put finding it, the stored stack is the
\* first write's item (caption, location, uploadTimestamp), whatever the
\* second request carried, and each of the two writes whose puts all went
\* through is answered 200.
C1_IdempotentStackWrite ==
  \A w1 \in Writers, w2 \in Writers :
    ( /\ w1 # w2
      /\ Issued(w1) /\ Issued(w2)
      /\ writer[w1].body.stackId = writer[w2].body.stackId
      /\ writer[w1].ops[1] = "ok"
      /\ writer[w2].ops[1] = "ConditionalCheckFailedException" )
    => /\ Lookup(stackTable, writer[w1].body.stackId) = {StackItemOf(writer[w1].body)}
       /\ AllStoredOrPresent(w1) => writer[w1].resp = Ok200
       /\ AllStoredOrPresent(w2) => writer[w2].resp = Ok200

\* Both writes returned 200, the second after the first, with another caption,
\* location and timestamp; the stack still has the first write's values.
C1_Witness ==
  \E w1 \in Writers, w2 \in Writers :
    /\ w1 # w2
    /\ Issued(w1) /\ Issued(w2)
    /\ writer[w1].body.stackId = writer[w2].body.stackId
    /\ writer[w1].ops[1] = "ok"
    /\ writer[w2].ops[1] = "ConditionalCheckFailedException"
    /\ writer[w2].preStack # {}
    /\ writer[w1].resp = Ok200 /\ writer[w2].resp = Ok200
    /\ StackItemOf(writer[w1].body).caption # StackItemOf(writer[w2].body).caption
    /\ StackItemOf(writer[w1].body).uploadTimestamp
         # StackItemOf(writer[w2].body).uploadTimestamp
    /\ DOMAIN StackItemOf(writer[w1].body) # DOMAIN StackItemOf(writer[w2].body)
    /\ stackTable[writer[w1].body.stackId] = StackItemOf(writer[w1].body)

\* C2: when two puts carry the same mediaId, the first inserting the item and
\* the second finding it, the stored record (stackId, alternativeText,
\* imageSrc, mediaType, sequenceNumber) is the one the first put wrote, and
\* the write that issued the second put is answered 200 if all its puts went
\* through.
C2_IdempotentMediaWrite ==
  \A w1 \in Writers, w2 \in Writers :
    \A i \in 1..(Len(writer[w1].ops) - 1), j \in 1..(Len(writer[w2].ops) - 1) :
      ( /\ <<w1, i>> # <<w2, j>>
        /\ writer[w1].body.media[i].mediaId = writer[w2].body.media[j].mediaId
        /\ writer[w1].ops[i + 1] = "ok"
        /\ writer[w2].ops[j + 1] = "ConditionalCheckFailedException" )
      => /\ Lookup(mediaTable, writer[w1].body.media[i].mediaId)
              = {MediaItemOf(writer[w1].body, i)}
         /\ AllStoredOrPresent(w2) => writer[w2].resp = Ok200

\* A second write of a stored mediaId, with another stackId, position and
\* payload, returned 200 and the stored record is still the first one.
C2_Witness ==
  \E w1 \in Writers, w2 \in Writers :
    \E i \in 1..(Len(writer[w1].ops) - 1), j \in 1..(Len(writer[w2].ops) - 1) :
      /\ w1 # w2
      /\ writer[w1].body.media[i].mediaId = writer[w2].body.media[j].mediaId
      /\ writer[w1].ops[i + 1] = "ok"
      /\ writer[w2].ops[j + 1] = "ConditionalCheckFailedException"
      /\ writer[w2].preMedia[j] # {}
      /\ writer[w2].resp = Ok200
      /\ writer[w1].body.stackId # writer[w2].body.stackId
      /\ i # j
      /\ writer[w1].body.media[i] # writer[w2].body.media[j]
      /\ mediaTable[writer[w1].body.media[i].mediaId] = MediaItemOf(writer[w1].body, i)

\* C9: a write all of whose N+1 puts either inserted or hit an existing key
\* is answered 200 "Media metadata saved successfully!".
C9_ExistingKeyCountsAsSuccess ==
  \A w \in Writers :
    AllStoredOrPresent(w) => writer[w].pc = "done" /\ writer[w].resp = Ok200

\* A write answered 200 although every one of its puts hit an existing key.
C9_Witness ==
  \E w \in Writers :
    /\ Issued(w)
    /\ \A k \in 1..Len(writer[w].ops) :
         writer[w].ops[k] = "ConditionalCheckFailedException"
    /\ writer[w].resp = Ok200

\* C10: a write one of whose puts failed for another reason than an existing
\* key is answered 500 "Failed to save metadata.", whatever the other puts did.
C10_OtherFailureIs500 ==
  \A w \in Writers :
    (Issued(w) /\ \E k \in 1..Len(writer[w].ops) : writer[w].ops[k] = "error")
    => /\ writer[w].pc = "done"
       /\ writer[w].resp = createResponse(500, "Failed to save metadata.")

\* A write answered 500 with one put failed, one inserted and one that hit an
\* existing key.
C10_Witness ==
  \E w \in Writers :
    /\ Issued(w)
    /\ \E k \in 1..Len(writer[w].ops) : writer[w].ops[k] = "error"
    /\ \E k \in 1..Len(writer[w].ops) : writer[w].ops[k] = "ok"
    /\ \E k \in 1..Len(writer[w].ops) :
         writer[w].ops[k] = "ConditionalCheckFailedException"
    /\ writer[w].resp.statusCode = 500

\* C11: the write handler does not roll back. For a write answered 500, the
\* stack its stack put inserted and every media item one of its media puts
\* inserted are in the store exactly as the request wrote them, in every
\* later state; and a write one of whose puts failed is never answered 200.
C11_NoRollback ==
  \A w \in Writers :
    /\ (Issued(w) /\ writer[w].resp.statusCode = 500)
       => /\ writer[w].ops[1] = "ok"
               => Lookup(stackTable, writer[w].body.stackId)
                    = {StackItemOf(writer[w].body)}
          /\ \A i \in 1..(Len(writer[w].ops) - 1) :
               writer[w].ops[i + 1] = "ok"
               => Lookup(mediaTable, writer[w].body.media[i].mediaId)
                    = {MediaItemOf(writer[w].body, i)}
    /\ (Issued(w) /\ \E k \in 1..Len(writer[w].ops) : writer[w].ops[k] = "error")
       => writer[w].resp.statusCode # 200

\* Two writes answered 500: one left its stack and one of its two media items
\* in the store, the other left a media item without its stack.
C11_Witness ==
  \E w1 \in Writers, w2 \in Writers :
    /\ writer[w1].resp.statusCode = 500 /\ Len(writer[w1].ops) = 3
    /\ writer[w1].ops[1] = "ok"
    /\ \E i \in 2..3 : writer[w1].ops[i] = "ok"
    /\ \E i \in 2..3 :
         /\ writer[w1].ops[i] = "error"
         /\ writer[w1].body.media[i - 1].mediaId
              \notin { mediaTable[x].mediaId :
                         x \in { y \in DOMAIN mediaTable :
                                   mediaTable[y].stackId = writer[w1].body.stackId } }
    /\ writer[w1].body.stackId \in DOMAIN stackTable
    /\ writer[w2].resp.statusCode = 500 /\ Issued(w2)
    /\ writer[w2].ops[1] = "error"
    /\ writer[w2].body.stackId \notin DOMAIN stackTable
    /\ \E i \in 2..Len(writer[w2].ops) :
         /\ writer[w2].ops[i] = "ok"
         /\ writer[w2].body.media[i - 1].mediaId \in DOMAIN mediaTable

\* The media keys of a write request.
MediaIdsOf(req) == { req.media[i].mediaId : i \in 1..Len(req.media) }

\* C12: when a write was answered 500 and the identical request is sent
\* again after that answer, with every put of the repetition answered by the
\* store, the repetition is answered 200, every item that was stored when it
\* started is still stored unchanged, and the store holds what one successful
\* write of the request stores: its stack item and, under each of its
\* mediaIds, the media item of a position carrying that mediaId.
C12_SafeRetry ==
  \A w1 \in Writers, w2 \in Writers :
    ( /\ w1 \in writer[w2].prior
      /\ Issued(w1) /\ writer[w1].resp.statusCode = 500
      /\ writer[w2].body = writer[w1].body
      /\ AllStoredOrPresent(w2) )
    => LET req == writer[w2].body IN
       /\ writer[w2].resp = Ok200
       /\ writer[w2].preStack # {}
            => Lookup(stackTable, req.stackId) = writer[w2].preStack
       /\ \A i \in 1..Len(req.media) :
            writer[w2].preMedia[i] # {}
            => Lookup(mediaTable, req.media[i].mediaId) = writer[w2].preMedia[i]
       /\ DOMAIN stackTable = {req.stackId}
       /\ stackTable[req.stackId] = StackItemOf(req)
       /\ DOMAIN mediaTable = MediaIdsOf(req)
       /\ \A m \in MediaIdsOf(req) :
            mediaTable[m] \in { MediaItemOf(req, i) :
                                  i \in { j \in 1..Len(req.media) :
                                            req.media[j].mediaId = m } }

\* A write of a stack with two media items was answered 500 with the stack
\* stored and one media item missing; its repetition found the stack, inserted
\* the missing item and was answered 200.
C12_Witness ==
  \E w1 \in Writers, w2 \in Writers :
    /\ w1 \in writer[w2].prior
    /\ writer[w1].resp.statusCode = 500
    /\ writer[w2].body = writer[w1].body
    /\ Len(writer[w1].ops) = 3
    /\ writer[w1].ops[1] = "ok"
    /\ \E k \in 2..3 :
         /\ writer[w1].ops[k] = "error"
         /\ writer[w2].preMedia[k - 1] = {}
         /\ writer[w2].ops[k] = "ok"
    /\ writer[w2].preStack # {}
    /\ writer[w2].ops[1] = "ConditionalCheckFailedException"
    /\ writer[w2].resp = Ok200
    /\ Cardinality(DOMAIN mediaTable) = 2

\* C14: the media item a write's put inserted for media[i] (i counted from
\* zero) carries sequenceNumber i and the request's stackId; a request whose
\* media item carries a sequenceNumber of its own is answered 400 without a
\* put.
C14_SequenceNumberIsIndex ==
  \A w \in Writers :
    /\ \A i \in 1..(Len(writer[w].ops) - 1) :
         writer[w].ops[i + 1] = "ok"
         => LET stored == mediaTable[writer[w].body.media[i].mediaId] IN
            /\ stored.sequenceNumber = i - 1
            /\ stored.stackId = writer[w].body.stackId
    /\ ( /\ writer[w].pc # "idle"
         /\ writer[w].body.kind = "json"
         /\ Has(writer[w].body, "media")
         /\ \E i \in 1..Len(writer[w].body.media) :
              Has(writer[w].body.media[i], "sequenceNumber") )
       => writer[w].resp.statusCode = 400 /\ ~Issued(w)

\* A write stored two media items, with sequenceNumber 0 and 1, and another
\* request that carried its own sequenceNumber was answered 400.
C14_Witness ==
  \E w \in Writers, v \in Writers :
    /\ Len(writer[w].ops) = 3
    /\ writer[w].ops[2] = "ok" /\ writer[w].ops[3] = "ok"
    /\ mediaTable[writer[w].body.media[1].mediaId].sequenceNumber = 0
    /\ mediaTable[writer[w].body.media[2].mediaId].sequenceNumber = 1
    /\ writer[v].body.kind = "json" /\ Has(writer[v].body, "media")
    /\ \E i \in 1..Len(writer[v].body.media) :
         Has(writer[v].body.media[i], "sequenceNumber")
    /\ writer[v].resp.statusCode = 400

\* The body is missing, is not JSON, carries a key the schema does not know,
\* lacks a required key, or has an empty media array.
RejectedWriteBody(body) ==
  \/ body.kind \in {"missing", "empty", "invalid-json"}
  \/ DOMAIN body \ ({"kind"} \cup WriteSchemaKeys) # {}
  \/ {"stackId", "caption", "uploadTimestamp", "media"} \ DOMAIN body # {}
  \/ Len(body.media) = 0

\* C15: a write request whose body is missing, is not JSON, carries an
\* unknown key, lacks a required key or has an empty media array is answered
\* 400 and issues no put; the step that answers 400 leaves both tables as
\* they were.
C15_InvalidBodyNoInsert ==
  /\ [](\A w \in Writers :
          (writer[w].pc # "idle" /\ RejectedWriteBody(writer[w].body))
          => /\ writer[w].pc = "done"
             /\ writer[w].resp.statusCode = 400
             /\ ~Issued(w))
  /\ [][\A w \in Writers :
          (writer[w].pc = "idle" /\ writer'[w].resp.statusCode = 400)
          => stackTable' = stackTable /\ mediaTable' = mediaTable]_vars

\* A request that is valid but for an unknown key was answered 400 while the
\* store already held a stack, and no put was issued for it.
C15_Witness ==
  \E w \in Writers :
    /\ writer[w].body.kind = "json"
    /\ {"stackId", "caption", "uploadTimestamp", "media"} \subseteq DOMAIN writer[w].body
    /\ Len(writer[w].body.media) = 1
    /\ Has(writer[w].body, "invalidField")
    /\ writer[w].resp = createResponse(400,
                          "Invalid request: \"invalidField\" is not allowed")
    /\ ~Issued(w)
    /\ DOMAIN stackTable # {}

\* ------------------------------------------------------------------------
\* Properties of the read handler
\* ------------------------------------------------------------------------

Is200(r) == reader[r].pc = "done" /\ reader[r].resp.statusCode = 200

InternalError == createErrorResponse(500, "Internal server error.")

\* C3: in a 200 read response, pair i carries the i-th stack the stack query
\* returned, for every i, in whatever order the media lookups completed.
C3_MergeByIndex ==
  \A r \in Readers :
    Is200(r) =>
      /\ Len(reader[r].resp.stackAndMediaData) = Len(reader[r].stacks)
      /\ \A i \in DOMAIN reader[r].stacks :
           reader[r].resp.stackAndMediaData[i].stack = reader[r].stacks[i]

\* A 200 response over two stacks whose lookups completed in reverse order.
C3_Witness ==
  \E r \in Readers :
    /\ Is200(r)
    /\ Len(reader[r].stacks) = 2
    /\ reader[r].order = <<2, 1>>
    /\ reader[r].stacks[1] # reader[r].stacks[2]

\* C4: when the stack query succeeded and the media lookup of a returned
\* stack failed, the response is 500 and carries no stackAndMediaData, also
\* when every other lookup succeeded.
C4_FailedLookupIs500 ==
  \A r \in Readers :
    (\E i \in DOMAIN reader[r].lookups : reader[r].lookups[i] = "failed")
    => /\ reader[r].pc = "done"
       /\ reader[r].resp.statusCode = 500
       /\ ~Has(reader[r].resp, "stackAndMediaData")

\* A 500 response where one lookup failed and the other one succeeded.
C4_Witness ==
  \E r \in Readers :
    /\ reader[r].stackAnswer = "items"
    /\ Len(reader[r].lookups) = 2
    /\ \E i \in DOMAIN reader[r].lookups : reader[r].lookups[i] = "failed"
    /\ \E i \in DOMAIN reader[r].lookups : reader[r].lookups[i] = "ok"
    /\ reader[r].resp.statusCode = 500

\* C5: a valid read whose stack query returned no stack, as an empty Items
\* list or as an answer without Items, is answered 404 "No stacks found!".
C5_NoStacksIs404 ==
  \A r \in Readers :
    (reader[r].stackAnswer \in {"items", "no-items"} /\ reader[r].stacks = << >>)
    => /\ reader[r].pc = "done"
       /\ reader[r].resp = createErrorResponse(404, "No stacks found!")

\* A 404 for a range that matches nothing in a store that holds a stack.
C5_Witness ==
  \E r \in Readers :
    /\ reader[r].stackAnswer = "items"
    /\ reader[r].stacks = << >>
    /\ DOMAIN stackTable # {}
    /\ reader[r].resp.statusCode = 404

ReadValidationMessages ==
  { "Request body is missing.", "Invalid JSON format.",
    "Invalid request: stackLimit is required",
    "Invalid request: stackLimit must be greater than 0",
    "Invalid request: startTimestamp must be a non-negative number",
    "Invalid request: endTimestamp must be greater than startTimestamp",
    "Invalid request: \"invalidField\" is not allowed" }

NoStoreQuery(r) == reader[r].stackQueries = 0 /\ reader[r].mediaQueries = 0

\* C6: a read request that fails validation is answered 400 with a message
\* naming the violated rule and issues no stack query and no media query:
\* stackLimit absent gives "stackLimit is required", stackLimit <= 0 gives
\* "stackLimit must be greater than 0", and every 400 names a rule and comes
\* without a query.
C6_ValidationBeforeStore ==
  \A r \in Readers :
    LET rd == reader[r] IN
    /\ (rd.pc # "idle" /\ rd.body.kind = "json" /\ ~Has(rd.body, "stackLimit"))
       => /\ rd.resp = createErrorResponse(400, "Invalid request: stackLimit is required")
          /\ NoStoreQuery(r)
    /\ (rd.pc # "idle" /\ rd.body.kind = "json" /\ Has(rd.body, "stackLimit")
          /\ rd.body.stackLimit <= 0)
       => /\ rd.resp = createErrorResponse(400,
                         "Invalid request: stackLimit must be greater than 0")
          /\ NoStoreQuery(r)
    /\ rd.resp.statusCode = 400
       => rd.resp.message \in ReadValidationMessages /\ NoStoreQuery(r)

\* A read with stackLimit -5 and a valid time range was answered 400.
C6_Witness ==
  \E r \in Readers :
    /\ reader[r].body = ReadBody(-5, 0, 1)
    /\ reader[r].resp = createErrorResponse(400,
                          "Invalid request: stackLimit must be greater than 0")
    /\ NoStoreQuery(r)

\* C7: when a stack returned by the stack query lacks stackId, wherever it
\* sits in the list, the response is 500 "Internal server error." and
\* carries no pair, not even for the stacks that have a stackId.
C7_MissingStackIdIs500 ==
  \A r \in Readers :
    (\E i \in DOMAIN reader[r].stacks : ~Has(reader[r].stacks[i], "stackId"))
    => reader[r].pc = "done" /\ reader[r].resp = InternalError

\* The second of two stacks lacks stackId, the lookup of the first was issued
\* and answered, and the response is 500.
C7_Witness ==
  \E r \in Readers :
    /\ Len(reader[r].stacks) = 2
    /\ Has(reader[r].stacks[1], "stackId")
    /\ ~Has(reader[r].stacks[2], "stackId")
    /\ reader[r].lookups[1] = "ok"
    /\ reader[r].resp = InternalError

OnlyStackLimit(body) == body.kind = "json" /\ DOMAIN body = {"kind", "stackLimit"}

\* C8: a valid read that supplies only stackLimit queries the range
\* [0, clock at validation], and every stack the query returns has
\* uploadTimestamp <= that time.
C8_DefaultRange ==
  \A r \in Readers :
    LET rd == reader[r] IN
    (rd.pc # "idle" /\ OnlyStackLimit(rd.body) /\ rd.body.stackLimit > 0)
    => /\ rd.params.startTimestamp = 0
       /\ rd.params.endTimestamp = rd.reqTime
       /\ rd.stackQueries = 1
       /\ \A i \in DOMAIN rd.stacks : rd.stacks[i].uploadTimestamp <= rd.reqTime

\* Such a read returned a stack while the store already held a stack written
\* after the request was validated.
C8_Witness ==
  \E r \in Readers :
    /\ OnlyStackLimit(reader[r].body)
    /\ Is200(r)
    /\ Len(reader[r].stacks) = 1
    /\ \E s \in DOMAIN stackTable : stackTable[s].uploadTimestamp > reader[r].reqTime

\* ------------------------------------------------------------------------
\* Properties of the signed-URL handler
\* ------------------------------------------------------------------------

\* The year and two-digit month of the clock values, December 2023 onwards.
YearAndMonth == << "2023/12", "2024/01", "2024/02", "2024/03", "2024/04" >>

\* The signing calls that were started: invocation and position.
StartedCalls ==
  UNION { { <<g, i>> : i \in DOMAIN signer[g].calls } : g \in Signers }

\* C17: every key the signed-URL handler builds reads
\* user/{userId}/{year}/{month}/{token}_{fileName}, with the year and the
\* two-digit month of the clock at the request and a token generated by
\* uuidv4, and any two keys built for two files, of one request or of two,
\* differ, also when userId and fileName are the same.
C17_KeyShapeAndUniqueness ==
  /\ \A c \in StartedCalls :
       LET sg == signer[c[1]]
           file == sg.body.filesMetadata[c[2]]
       IN \E n \in 1..uuids :
            sg.calls[c[2]].key =
              "user/" \o file.userId \o "/" \o YearAndMonth[sg.reqTime + 1]
                \o "/" \o uuidv4(n) \o "_" \o file.fileName
  /\ \A c \in StartedCalls, d \in StartedCalls :
       c # d => signer[c[1]].calls[c[2]].key # signer[d[1]].calls[d[2]].key

\* Three keys for the same userId and fileName: two of one request made in
\* December 2023, one of a request made in January 2024.
C17_Witness ==
  \E g \in Signers, h \in Signers :
    /\ g # h
    /\ signer[g].body = SignBody(<<FileA, FileA>>) /\ signer[g].reqTime = 0
    /\ signer[h].body = SignBody(<<FileA>>) /\ signer[h].reqTime = 1
    /\ signer[g].calls[1].key = "user/user123/2023/12/uuid1_testfile.jpg"
    /\ signer[g].calls[2].key = "user/user123/2023/12/uuid2_testfile.jpg"
    /\ signer[h].calls[1].key = "user/user123/2024/01/uuid3_testfile.jpg"

\* C18: when the signing call of one file of a request failed, the response
\* is 500 "Internal server error." and carries no signedUrlsAndKeys, also
\* when the calls of the other files succeeded.
C18_SigningFailureIs500 ==
  \A g \in Signers :
    (\E i \in DOMAIN signer[g].calls : signer[g].calls[i].state = "failed")
    => /\ signer[g].pc = "done"
       /\ signer[g].resp = InternalError
       /\ ~Has(signer[g].resp, "signedUrlsAndKeys")

\* A 500 response to a request for two files, one signed before the other
\* failed.
C18_Witness ==
  \E g \in Signers :
    /\ Len(signer[g].calls) = 2
    /\ signer[g].calls[1].state = "signed"
    /\ signer[g].calls[2].state = "failed"
    /\ signer[g].order = <<1, 2>>
    /\ signer[g].resp.statusCode = 500

\* C19: a 200 signed-URL response has one entry per file of filesMetadata;
\* entry i carries the key built for file i, and its uploadUrl was signed for
\* that key, file i's contentType, the configured bucket and the configured
\* expiry, in whatever order the signing calls completed.
C19_EntriesFollowInput ==
  \A g \in Signers :
    (signer[g].pc = "done" /\ signer[g].resp.statusCode = 200)
    => LET files == signer[g].body.filesMetadata
           entries == signer[g].resp.signedUrlsAndKeys
       IN /\ Len(entries) = Len(files)
          /\ \A i \in 1..Len(files) :
               /\ DOMAIN entries[i] = {"uploadUrl", "key"}
               /\ \E n \in 1..uuids :
                    entries[i].key = createKey(files[i].userId, files[i].fileName,
                                               signer[g].reqTime, uuidv4(n))
               /\ entries[i].uploadUrl.signedFor =
                    SignRequest(env.sign["S3_BUCKET_NAME"], entries[i].key,
                                files[i].contentType,
                                NumberOf[env.sign["S3_URL_TTL"]])

\* A 200 response for two different files whose signing calls completed in
\* reverse order.
C19_Witness ==
  \E g \in Signers :
    /\ signer[g].resp.statusCode = 200
    /\ signer[g].body = SignBody(<<FileA, FileB>>)
    /\ signer[g].order = <<2, 1>>
    /\ signer[g].resp.signedUrlsAndKeys[2].uploadUrl.signedFor.ContentType = "video/mp4"
    /\ signer[g].resp.signedUrlsAndKeys[2].uploadUrl.signedFor.expiresIn = 300

\* ------------------------------------------------------------------------
\* Properties of the three handlers side by side
\* ------------------------------------------------------------------------

\* The puts of the write invocations that carry the stack key k and were
\* answered by the store without error.
AnsweredStackPuts(k) ==
  { w \in Writers :
      /\ Issued(w)
      /\ writer[w].body.stackId = k
      /\ writer[w].ops[1] \in {"ok", "ConditionalCheckFailedException"} }

\* The same for the media key k: invocation and position.
AnsweredMediaPuts(k) ==
  UNION { { <<w, i>> : i \in { j \in 1..(Len(writer[w].ops) - 1) :
                                 /\ writer[w].body.media[j].mediaId = k
                                 /\ writer[w].ops[j + 1]
                                      \in {"ok", "ConditionalCheckFailedException"} } } :
          w \in Writers }

\* C13: while writes, a read and a signed-URL request run concurrently, no
\* step changes or removes a stored stack or media record; of the puts that
\* carry one key and were answered, exactly one inserted, the stored record is
\* that put's item in full, and every write whose puts were all answered is
\* answered 200.
C13_StoredRecordsNeverChange ==
  /\ [][ /\ \A k \in DOMAIN stackTable :
              k \in DOMAIN stackTable' /\ stackTable'[k] = stackTable[k]
         /\ \A k \in DOMAIN mediaTable :
              k \in DOMAIN mediaTable' /\ mediaTable'[k] = mediaTable[k] ]_vars
  /\ [](\A k \in StackIds :
          AnsweredStackPuts(k) # {}
          => /\ Cardinality({ w \in AnsweredStackPuts(k) : writer[w].ops[1] = "ok" }) = 1
             /\ \E w \in AnsweredStackPuts(k) :
                  /\ writer[w].ops[1] = "ok"
                  /\ Lookup(stackTable, k) = {StackItemOf(writer[w].body)})
  /\ [](\A k \in MediaIds :
          AnsweredMediaPuts(k) # {}
          => /\ Cardinality({ c \in AnsweredMediaPuts(k) :
                                writer[c[1]].ops[c[2] + 1] = "ok" }) = 1
             /\ \E c \in AnsweredMediaPuts(k) :
                  /\ writer[c[1]].ops[c[2] + 1] = "ok"
                  /\ Lookup(mediaTable, k) = {MediaItemOf(writer[c[1]].body, c[2])})
  /\ [](\A w \in Writers : AllStoredOrPresent(w) => writer[w].resp = Ok200)

\* Two overlapping writes of the same stackId and mediaId with different
\* payloads were both answered 200, the stack stored by one and the media item
\* by the other, next to a read and a signed-URL request answered 200.
C13_Witness ==
  \E w1 \in Writers, w2 \in Writers :
    /\ writer[w1].prior = {} /\ writer[w2].prior = {}
    /\ writer[w1].body # writer[w2].body
    /\ writer[w1].ops = <<"ok", "ConditionalCheckFailedException">>
    /\ writer[w2].ops = <<"ConditionalCheckFailedException", "ok">>
    /\ writer[w1].body.stackId = writer[w2].body.stackId
    /\ writer[w1].resp = Ok200 /\ writer[w2].resp = Ok200
    /\ stackTable[writer[w1].body.stackId] = StackItemOf(writer[w1].body)
    /\ mediaTable["m1"] = MediaItemOf(writer[w2].body, 1)
    /\ reader["r1"].resp.statusCode = 200
    /\ signer["g1"].resp.statusCode = 200

MissingBodyResponse == createErrorResponse(400, "Request body is missing.")

InvalidJsonResponse == createErrorResponse(400, "Invalid JSON format.")

\* C16: in the write, read and signed-URL handlers a null or empty body is
\* answered 400 "Request body is missing." and a body that is no JSON is
\* answered 400 "Invalid JSON format."; no put, no query and no signing call
\* is issued for such a request.
C16_MissingAndInvalidJson ==
  /\ \A w \in Writers :
       LET wr == writer[w] IN
       /\ (wr.pc # "idle" /\ wr.body.kind \in {"missing", "empty"})
          => wr.resp = MissingBodyResponse /\ ~Issued(w)
       /\ (wr.pc # "idle" /\ wr.body.kind = "invalid-json")
          => wr.resp = InvalidJsonResponse /\ ~Issued(w)
  /\ \A r \in Readers :
       LET rd == reader[r] IN
       /\ (rd.pc # "idle" /\ rd.body.kind \in {"missing", "empty"})
          => rd.resp = MissingBodyResponse /\ NoStoreQuery(r)
       /\ (rd.pc # "idle" /\ rd.body.kind = "invalid-json")
          => rd.resp = InvalidJsonResponse /\ NoStoreQuery(r)
  /\ \A g \in Signers :
       LET sg == signer[g] IN
       /\ (sg.pc # "idle" /\ sg.body.kind \in {"missing", "empty"})
          => sg.resp = MissingBodyResponse /\ sg.calls = << >>
       /\ (sg.pc # "idle" /\ sg.body.kind = "invalid-json")
          => sg.resp = InvalidJsonResponse /\ sg.calls = << >>
  /\ (\A g \in Signers : signer[g].calls = << >>) => uuids = 0

\* Each handler has answered such a request: the write handler a null body
\* and a body that is no JSON, the read handler an empty body, the signed-URL
\* handler a body that is no JSON, with a stack in the store.
C16_Witness ==
  /\ writer["w1"].pc = "done" /\ writer["w1"].body = MissingBody
  /\ writer["w1"].resp = MissingBodyResponse
  /\ writer["w2"].pc = "done" /\ writer["w2"].body = InvalidJson
  /\ writer["w2"].resp = InvalidJsonResponse
  /\ reader["r1"].pc = "done" /\ reader["r1"].body = EmptyBody
  /\ reader["r1"].resp = MissingBodyResponse
  /\ signer["g1"].pc = "done" /\ signer["g1"].body = InvalidJson
  /\ signer["g1"].resp = InvalidJsonResponse
  /\ stackTable = EmptyTable /\ uuids = 0

\* ------------------------------------------------------------------------
\* Properties of module load
\* ------------------------------------------------------------------------

\* The load error for the first of the two table names that is missing.
WriteLoadError(envf) ==
  IF ~IsSet(envf, "STACK_METADATA_TABLE")
    THEN "STACK_METADATA_TABLE environment variable is missing."
  ELSE "MEDIA_METADATA_TABLE environment variable is missing."

\* C20: once the write handler's module was loaded in an environment that
\* lacks STACK_METADATA_TABLE or MEDIA_METADATA_TABLE, the load has failed
\* with "<NAME> environment variable is missing." and no write request was
\* handled.
C20_WriteLoadFailsWithoutTables ==
  ( /\ loaded.write # "unloaded"
    /\ \/ ~IsSet(env.write, "STACK_METADATA_TABLE")
       \/ ~IsSet(env.write, "MEDIA_METADATA_TABLE") )
  => /\ loaded.write = WriteLoadError(env.write)
     /\ \A w \in Writers : writer[w].pc = "idle"

\* The variables the read handler's module needs.
ReadVariables ==
  {"STACK_METADATA_TABLE", "STACK_METADATA_GSI", "MEDIA_METADATA_TABLE",
   "MEDIA_METADATA_GSI"}

\* S3_URL_TTL is missing or its text is no number.
TtlMissingOrNonNumeric(envf) ==
  ~IsSet(envf, "S3_URL_TTL") \/ envf["S3_URL_TTL"] = "invalid_number"

\* C21: once the read handler's module was loaded in an environment that
\* lacks one of its four variables, or the signed-URL handler's module in one
\* where S3_BUCKET_NAME or CDN_DOMAIN_URL is missing or S3_URL_TTL is missing
\* or non-numeric, the load has thrown; and a request is handled only under
\* a complete configuration.
C21_LoadFailsOnIncompleteConfig ==
  /\ ( /\ loaded.read # "unloaded"
       /\ \E n \in ReadVariables : ~IsSet(env.read, n) )
     => loaded.read # "loaded"
  /\ ( /\ loaded.sign # "unloaded"
       /\ \/ ~IsSet(env.sign, "S3_BUCKET_NAME")
          \/ ~IsSet(env.sign, "CDN_DOMAIN_URL")
          \/ TtlMissingOrNonNumeric(env.sign) )
     => loaded.sign # "loaded"
  /\ \A r \in Readers :
       reader[r].pc # "idle" => \A n \in ReadVariables : IsSet(env.read, n)
  /\ \A g \in Signers :
       signer[g].pc # "idle"
         => /\ IsSet(env.sign, "S3_BUCKET_NAME")
            /\ IsSet(env.sign, "CDN_DOMAIN_URL")
            /\ ~TtlMissingOrNonNumeric(env.sign)

\* ------------------------------------------------------------------------
\* Properties of the failure responses
\* ------------------------------------------------------------------------

\* C22: a 500 response of the read or the signed-URL handler is exactly
\* {message: "Internal server error."} and one of the write handler exactly
\* {message: "Failed to save metadata."}, whatever call failed and whatever
\* it failed with.
C22_GenericFailureBody ==
  /\ \A w \in Writers :
       writer[w].resp.statusCode = 500
         => writer[w].resp = [statusCode |-> 500,
                              message |-> "Failed to save metadata."]
  /\ \A r \in Readers :
       reader[r].resp.statusCode = 500
         => reader[r].resp = [statusCode |-> 500,
                              message |-> "Internal server error."]
  /\ \A g \in Signers :
       signer[g].resp.statusCode = 500
         => signer[g].resp = [statusCode |-> 500,
                              message |-> "Internal server error."]

\* Two writes of the same body failed at different puts, a read failed at a
\* media lookup and a signing call failed: the 500 bodies do not differ.
C22_Witness ==
  /\ writer["w1"].body = writer["w2"].body
  /\ writer["w1"].resp.statusCode = 500 /\ writer["w2"].resp = writer["w1"].resp
  /\ writer["w1"].ops[1] = "error"
  /\ writer["w2"].ops[1] # "error" /\ writer["w2"].ops[2] = "error"
  /\ reader["r1"].resp.statusCode = 500
  /\ \E i \in DOMAIN reader["r1"].lookups : reader["r1"].lookups[i] = "failed"
  /\ signer["g1"].resp.statusCode = 500
  /\ signer["g1"].resp = reader["r1"].resp

\* ------------------------------------------------------------------------
\* Properties of the read validation
\* ------------------------------------------------------------------------

\* The body of r carries an endTimestamp that is not greater than its
\* startTimestamp, supplied or defaulted to 0.
EndNotAfterStart(r) ==
  LET body == reader[r].body IN
  /\ reader[r].pc # "idle"
  /\ body.kind = "json"
  /\ Has(body, "endTimestamp")
  /\ body.endTimestamp <= StartTimestampValue(body)

HandedFutureTimestamp(w) ==
  /\ writer[w].pc = "idle" /\ writer'[w].pc # "idle"
  /\ writer'[w].body.kind = "json"
  /\ Has(writer'[w].body, "uploadTimestamp")
  /\ writer'[w].body.uploadTimestamp > now

\* C24: a write request gets past validation only with
\* 0 <= uploadTimestamp <= clock, so every stored stack has an
\* uploadTimestamp that is not later than the current time; a request with a
\* future uploadTimestamp is answered 400 ("uploadTimestamp must be in the
\* past" when stackId and caption are present) and issues no put.
C24_TimestampNotInFuture ==
  /\ [](/\ \A w \in Writers :
            Issued(w) => /\ 0 <= writer[w].body.uploadTimestamp
                         /\ writer[w].body.uploadTimestamp <= now
        /\ \A k \in DOMAIN stackTable :
            /\ 0 <= stackTable[k].uploadTimestamp
            /\ stackTable[k].uploadTimestamp <= now)
  /\ [][\A w \in Writers :
         HandedFutureTimestamp(w)
           => /\ writer'[w].resp.statusCode = 400
              /\ writer'[w].ops = << >>
              /\ stackTable' = stackTable /\ mediaTable' = mediaTable
              /\ ( Has(writer'[w].body, "stackId") /\ Has(writer'[w].body, "caption") )
                 => writer'[w].resp.message
                      = "Invalid request: uploadTimestamp must be in the past"]_vars

\* A stack whose uploadTimestamp equals the current time is stored, and
\* a request was rejected because its uploadTimestamp lay in the future.
C24_Witness ==
  /\ now = MaxTime
  /\ \E k \in DOMAIN stackTable : stackTable[k].uploadTimestamp = now
  /\ \E w \in Writers :
       /\ writer[w].pc = "done"
       /\ writer[w].body \in ShapedWriteBodies
       /\ writer[w].body.uploadTimestamp = MaxTime
       /\ writer[w].ops = << >>
       /\ writer[w].resp
            = createResponse(400, "Invalid request: uploadTimestamp must be in the past")

\* ------------------------------------------------------------------------
\* Properties of the write handler's join
\* ------------------------------------------------------------------------

\* Some put of w has not been answered by the store.
PutInFlight(w) == \E k \in DOMAIN writer[w].ops : writer[w].ops[k] = "inflight"

\* C25 as stated: the write handler responds, with success or with failure,
\* only when none of its puts is in flight, and after its response none of
\* its puts is answered by the store.
C25_RespondsAfterAllPuts ==
  /\ [](\A w \in Writers : writer[w].resp # NoResponse => ~PutInFlight(w))
  /\ [][\A w \in Writers :
         writer[w].resp # NoResponse => writer'[w].ops = writer[w].ops]_vars

\* C25 amended: the write handler answers 200 only when every put was
\* answered, and after a 200 none of its puts is answered by the store; it
\* answers 500 in the step in which the first put fails, whatever puts are
\* still in flight.
C25_SuccessAfterAllPuts ==
  /\ [](\A w \in Writers :
          /\ writer[w].resp.statusCode = 200 => ~PutInFlight(w)
          /\ Issued(w)
             => ( writer[w].resp.statusCode = 500
                    <=> \E k \in DOMAIN writer[w].ops : writer[w].ops[k] = "error" ))
  /\ [][\A w \in Writers :
         writer[w].resp.statusCode = 200 => writer'[w] = writer[w]]_vars

\* One write was answered 200 after its three puts, another was answered
\* 500 while two of its puts are in flight.
C25_Witness ==
  \E w1 \in Writers, w2 \in Writers :
    /\ writer[w1].resp.statusCode = 200 /\ Len(writer[w1].ops) = 3
    /\ ~PutInFlight(w1)
    /\ writer[w2].resp.statusCode = 500 /\ Len(writer[w2].ops) = 3
    /\ writer[w2].ops[2] = "error"
    /\ writer[w2].ops[1] = "inflight" /\ writer[w2].ops[3] = "inflight"

\* ------------------------------------------------------------------------
\* Properties of the 200 response of the read handler
\* ------------------------------------------------------------------------

\* C26: the stacks of a 200 read response are at least one and at most
\* stackLimit, in non-increasing order of uploadTimestamp, each with
\* startTimestamp <= uploadTimestamp <= endTimestamp of the validated request.
C26_StacksInRangeNewestFirst ==
  \A r \in Readers :
    reader[r].resp.statusCode = 200
      => LET pairs == reader[r].resp.stackAndMediaData
             params == reader[r].params
         IN /\ 1 <= Len(pairs) /\ Len(pairs) <= params.stackLimit
            /\ \A i \in DOMAIN pairs, j \in DOMAIN pairs :
                 i < j => pairs[i].stack.uploadTimestamp
                            >= pairs[j].stack.uploadTimestamp
            /\ \A i \in DOMAIN pairs :
                 /\ params.startTimestamp <= pairs[i].stack.uploadTimestamp
                 /\ pairs[i].stack.uploadTimestamp <= params.endTimestamp

\* A 200 response with two stacks, the newer one first, whose timestamps
\* are the two ends of the requested range.
C26_Witness ==
  LET rd == reader["r1"] IN
  /\ rd.resp.statusCode = 200
  /\ rd.params.stackLimit = 2
  /\ Len(rd.resp.stackAndMediaData) = 2
  /\ rd.params.startTimestamp < rd.params.endTimestamp
  /\ rd.resp.stackAndMediaData[1].stack.uploadTimestamp = rd.params.endTimestamp
  /\ rd.resp.stackAndMediaData[2].stack.uploadTimestamp = rd.params.startTimestamp

\* ------------------------------------------------------------------------
\* Properties of the read handler's fan-out
\* ------------------------------------------------------------------------

\* Every stack the stack query of r returned has a stackId.
AllHaveStackId(r) ==
  \A i \in DOMAIN reader[r].stacks : Has(reader[r].stacks[i], "stackId")

\* C27: no media lookup is issued while the stack query is outstanding, none
\* when it failed or returned no stack; when it returned k >= 1 stacks that
\* all have a stackId, k lookups are issued, one per stack, in the one step
\* that follows the stack query and before any of them is answered.
C27_LookupsAfterStackQuery ==
  /\ [](\A r \in Readers :
          /\ reader[r].pc \in {"idle", "querying"}
             => reader[r].mediaQueries = 0 /\ reader[r].lookups = << >>
          /\ ( reader[r].stackAnswer = "error" \/ reader[r].resp.statusCode = 404 )
             => reader[r].mediaQueries = 0 /\ reader[r].lookups = << >>
          /\ ( reader[r].stacks # << >> /\ AllHaveStackId(r) )
             => /\ reader[r].mediaQueries = Len(reader[r].stacks)
                /\ DOMAIN reader[r].lookups = DOMAIN reader[r].stacks
                /\ \A i \in DOMAIN reader[r].lookups :
                     reader[r].lookups[i] # "unissued")
  /\ [][\A r \in Readers :
         reader'[r].mediaQueries # reader[r].mediaQueries
           => /\ reader[r].pc = "querying" /\ reader[r].mediaQueries = 0
              /\ \A i \in DOMAIN reader'[r].lookups :
                   reader'[r].lookups[i] \in {"inflight", "unissued"}
              /\ reader'[r].order = << >>]_vars

\* The stack query returned two stacks and both lookups are in flight.
C27_Witness ==
  LET rd == reader["r1"] IN
  /\ rd.pc = "awaiting" /\ rd.stackQueries = 1
  /\ Len(rd.stacks) = 2 /\ AllHaveStackId("r1")
  /\ rd.stacks[1].stackId # rd.stacks[2].stackId
  /\ rd.mediaQueries = 2
  /\ rd.lookups = <<"inflight", "inflight">>

\* C28: a 200 read response holds one {stack, media} pair per stack the
\* stack query returned, in the same order; every pair has a media list,
\* possibly empty, and every item of the media list of pair i has the
\* stackId of the stack of pair i.
C28_OnePairPerStack ==
  \A r \in Readers :
    reader[r].resp.statusCode = 200
      => LET pairs == reader[r].resp.stackAndMediaData IN
         /\ Len(pairs) = Len(reader[r].stacks)
         /\ \A i \in DOMAIN pairs :
              /\ DOMAIN pairs[i] = {"stack", "media"}
              /\ pairs[i].stack = reader[r].stacks[i]
              /\ \A m \in pairs[i].media : m.stackId = pairs[i].stack.stackId

\* A 200 response with two pairs while both stacks have media in the store:
\* the first pair lists the media of its stack, the second an empty list.
C28_Witness ==
  LET rd == reader["r1"] IN
  /\ rd.resp.statusCode = 200
  /\ Len(rd.resp.stackAndMediaData) = 2
  /\ rd.resp.stackAndMediaData[1].media # {}
  /\ rd.resp.stackAndMediaData[2].media = {}
  /\ \E k \in DOMAIN mediaTable :
       mediaTable[k].stackId = rd.resp.stackAndMediaData[2].stack.stackId

\* ------------------------------------------------------------------------
\* Properties of the calls the handlers issue
\* ------------------------------------------------------------------------

\* C29: a write that passed validation with N media items has issued N + 1
\* puts, one per op, and a put the store has answered, with or without an
\* error, is not issued again; a read issues the stack query at most once
\* and at most one media lookup per stack, and a lookup that was answered
\* is not issued again.
C29_NoRetry ==
  /\ [](/\ \A w \in Writers :
            /\ Issued(w) => /\ writer[w].puts = Len(writer[w].body.media) + 1
                            /\ Len(writer[w].ops) = writer[w].puts
            /\ ~Issued(w) => writer[w].puts = 0
        /\ \A r \in Readers :
            /\ reader[r].stackQueries <= 1
            /\ reader[r].mediaQueries <= Len(reader[r].stacks)
            /\ Len(reader[r].lookups) = Len(reader[r].stacks))
  /\ [][/\ \A w \in Writers : \A k \in DOMAIN writer[w].ops :
            writer[w].ops[k] # "inflight"
              => /\ Len(writer'[w].ops) = Len(writer[w].ops)
                 /\ writer'[w].ops[k] = writer[w].ops[k]
        /\ \A r \in Readers :
            /\ reader[r].stackQueries = 1 => reader'[r].stackQueries = 1
            /\ reader[r].lookups # << >>
                 => reader'[r].mediaQueries = reader[r].mediaQueries
            /\ \A i \in DOMAIN reader[r].lookups :
                 reader[r].lookups[i] \in {"ok", "failed"}
                   => reader'[r].lookups[i] = reader[r].lookups[i]]_vars

\* A write whose stack put was answered and whose media put failed, next to
\* a read whose stack query ran once and one of whose two lookups failed.
C29_Witness ==
  /\ \E w \in Writers :
       /\ writer[w].puts = 2 /\ writer[w].resp.statusCode = 500
       /\ writer[w].ops[1] = "ok" /\ writer[w].ops[2] = "error"
  /\ reader["r1"].stackQueries = 1 /\ reader["r1"].mediaQueries = 2
  /\ \E i \in 1..2 : reader["r1"].lookups[i] = "failed"

\* ------------------------------------------------------------------------
\* Properties of termination
\* ------------------------------------------------------------------------

\* The body of w is rejected by parseRequestBody at some time up to now.
WriteBodyRejected(w) ==
  \E t \in 0..now : WriteParseRequestBody(writer[w].body, t).error # None

\* C30: provided every call to the store or the signer settles, every
\* invocation that has started ends, and it ends with a response that is
\* never replaced: status 200, 400, 404 or 500 for read and 200, 400 or 500 for
\* write and signed-URL, 400 only when parsing or validation rejected the
\* body and no call was issued, 404 only when the stack query was answered
\* with no stack.
C30_OneResponsePerInvocation ==
  /\ [](/\ \A w \in Writers :
            /\ writer[w].pc = "done" <=> writer[w].resp # NoResponse
            /\ writer[w].pc = "done" => writer[w].resp.statusCode \in {200, 400, 500}
            /\ writer[w].resp.statusCode = 400
                 => ~Issued(w) /\ WriteBodyRejected(w)
        /\ \A r \in Readers :
            /\ reader[r].pc = "done" <=> reader[r].resp # NoResponse
            /\ reader[r].pc = "done"
                 => reader[r].resp.statusCode \in {200, 400, 404, 500}
            /\ reader[r].resp.statusCode = 400
                 => /\ NoStoreQuery(r)
                    /\ ReadParseRequestBody(reader[r].body, reader[r].reqTime).error
                         # None
            /\ reader[r].resp.statusCode = 404
                 => /\ reader[r].stackAnswer \in {"items", "no-items"}
                    /\ reader[r].stacks = << >>
        /\ \A g \in Signers :
            /\ signer[g].pc = "done" <=> signer[g].resp # NoResponse
            /\ signer[g].pc = "done" => signer[g].resp.statusCode \in {200, 400, 500}
            /\ signer[g].resp.statusCode = 400
                 => /\ signer[g].calls = << >>
                    /\ SignParseRequestBody(signer[g].body).error # None)
  /\ [][/\ \A w \in Writers :
            writer[w].resp # NoResponse => writer'[w].resp = writer[w].resp
        /\ \A r \in Readers :
            reader[r].resp # NoResponse => reader'[r].resp = reader[r].resp
        /\ \A g \in Signers :
            signer[g].resp # NoResponse => signer'[g].resp = signer[g].resp]_vars
  /\ \A w \in Writers : (writer[w].pc # "idle") ~> (writer[w].pc = "done")
  /\ \A r \in Readers : (reader[r].pc # "idle") ~> (reader[r].pc = "done")
  /\ \A g \in Signers : (signer[g].pc # "idle") ~> (signer[g].pc = "done")

\* The three invocations have ended: the write with 500 after a failed put,
\* the read with 404 after an empty stack query, the signed-URL request with
\* 200 after both files were signed.
C30_Witness ==
  /\ writer["w1"].pc = "done" /\ writer["w1"].resp.statusCode = 500
  /\ Len(writer["w1"].ops) = 3 /\ ~PutInFlight("w1")
  /\ reader["r1"].pc = "done" /\ reader["r1"].resp.statusCode = 404
  /\ reader["r1"].stackQueries = 1
  /\ signer["g1"].pc = "done" /\ signer["g1"].resp.statusCode = 200
  /\ Len(signer["g1"].calls) = 2
====
